---- MODULE Spec2Model ----
(***************************************************************************)
(* Model of the haumaru backup engine: the bounded queues with their       *)
(* re-enqueue-on-drop policy, the three pipeline worker pools, the         *)
(* backup-set controller with the SQLite index behind it, and the engine   *)
(* thread (scan_as_backup_set and the run loop).                           *)
(***************************************************************************)
EXTENDS Integers, Sequences, FiniteSets, TLC

\* ------------------------------------------------------------------ bounds
NumPreSend == 1
NumSend == 1
MaxPasses == 2
MaxFail == 2
MaxFsChanges == 1
NumContents == 2
MaxSets == 2
MaxStaged == 2
NumQueueWorkers == 2
MaxPushes == 5
MaxFileSize == 1
MaxKeyLen == 4
\* refused uploads of one path that are followed
MaxRetries == 3
\* periods and clock readings of Engine::run
MaxPeriod == 4
MaxNow == 12
\* hosts a redirect can lead to, and requests of one probe that are followed
NumHosts == 2
MaxRequests == 5

\* ------------------------------------------------------- program constants
MaxLen == 4
FileMode == 420
DirMode == 493

\* the keys of the backup root, in path order
KeyNames == <<"a", "b">>
Keys == {KeyNames[i] : i \in DOMAIN KeyNames}
KeyOrder(k) == CHOOSE i \in 1..Len(KeyNames) : KeyNames[i] = k
Contents == 1..NumContents

\* the paths the index is queried with, in path order: the keys and a child of "a"
PathNames == <<"a", "a/c", "b">>
Paths == {PathNames[i] : i \in DOMAIN PathNames}
PathOrder(p) == CHOOSE i \in 1..Len(PathNames) : PathNames[i] = p
\* Path::parent of a key
ParentOf(p) == IF p = "a/c" THEN "a" ELSE ""
QueueNames == {"pre_send", "send", "sent"}
PreIds == 1..NumPreSend
SendIds == 1..NumSend

\* -------------------------------------------------------------- data model
NoHash == 0
NoSet == 0

\* Hasher: the sha256 of a file body (injective on the modelled bodies).
Sha256(data) == 100 + data

\* metadata.len() of a file body
SizeOf(data) == data

Absent == [kind |-> "Absent", mtime |-> 0, data |-> 0]
FsFile(mtime, data) == [kind |-> "File", mtime |-> mtime, data |-> data]
FsDir(mtime) == [kind |-> "Dir", mtime |-> mtime, data |-> 0]

NewNode(path, kind, mtime, size, mode) ==
    [path |-> path, kind |-> kind, mtime |-> mtime, size |-> size, mode |-> mode,
     deleted |-> FALSE, hash |-> NoHash, backup_set |-> NoSet]

NoNode == [path |-> "", kind |-> "None", mtime |-> 0, size |-> 0, mode |-> 0,
           deleted |-> FALSE, hash |-> NoHash, backup_set |-> NoSet]

new_file(path, mtime, size, mode) == NewNode(path, "File", mtime, size, mode)
new_dir(path, mtime, mode) == NewNode(path, "Dir", mtime, 0, mode)
with_backup_set(n, bs) == [n EXCEPT !.backup_set = bs]
set_hash(n, h) == [n EXCEPT !.hash = h]
as_deleted(n, now) ==
    [n EXCEPT !.deleted = TRUE, !.size = 0, !.mode = 0, !.mtime = now, !.hash = NoHash]

\* Node::validate: TRUE when no assertion of it panics
validate(n) ==
    /\ n.kind = "File" =>
          /\ ~(~n.deleted /\ n.hash = NoHash)
          /\ ~(n.deleted /\ n.hash # NoHash)
          /\ ~(n.deleted /\ n.mode # 0)
    /\ n.kind = "Dir" => (n.hash = NoHash /\ n.size = 0)
    /\ n.backup_set # NoSet

\* BackupPath::get_file: stat of a key, NoNode when the path does not exist
get_file(fsys, k) ==
    CASE fsys[k].kind = "File" -> new_file(k, fsys[k].mtime, SizeOf(fsys[k].data), FileMode)
      [] fsys[k].kind = "Dir" -> new_dir(k, fsys[k].mtime, DirMode)
      [] OTHER -> NoNode

NoReq == [node |-> NoNode, sha256 |-> NoHash, data |-> 0]
SendRequest(sha, node, data) == [node |-> node, sha256 |-> sha, data |-> data]

\* ------------------------------------------------------------------- queue
EmptyQueue == [q |-> <<>>, in_progress |-> 0]

\* push that blocks only when q.len() >= max_len
CanPushToMaxLen(qs) == Len(qs.q) < MaxLen

\* Queue::push blocks while q.len() >= max_len - 1
CanPush(qs) == Len(qs.q) < MaxLen - 1
QueuePush(qs, t) == [qs EXCEPT !.q = Append(@, t)]

\* Queue::pop blocks while the queue is empty
CanPop(qs) == Len(qs.q) > 0

\* QueuePop without the in_progress accounting
QueuePopUncounted(qs) == [q |-> Tail(qs.q), in_progress |-> qs.in_progress]

\* Queue::pop: pop_front and in_progress += 1, under the queue's lock
QueuePop(qs) == [q |-> Tail(qs.q), in_progress |-> qs.in_progress + 1]

\* Queue::len
QueueLen(qs) == qs.in_progress + Len(qs.q)

\* wait that looks at the waiting items only
WaitDoneEmptyOnly(qs) == Len(qs.q) = 0

\* Queue::wait blocks while the queue is non-empty or an item is in progress
WaitDone(qs) == Len(qs.q) = 0 /\ qs.in_progress = 0

\* QueueItem: the popped value and the success flag
NoItem == [has |-> FALSE, success |-> FALSE]
QueueItem(t) == [has |-> TRUE, success |-> FALSE, t |-> t]

\* QueueItemDrop that never puts the value back
QueueItemDropLoses(qs, success, has, t) == [q |-> qs.q, in_progress |-> qs.in_progress - 1]

\* QueueItemDrop that leaves in_progress as it is
QueueItemDropUncounted(qs, success, has, t) ==
    IF ~success /\ has THEN [q |-> Append(qs.q, t), in_progress |-> qs.in_progress]
    ELSE qs

\* impl Drop for QueueItem: decrement in_progress and, when success was not
\* signalled and the value is still held, push it to the back of the queue
QueueItemDrop(qs, success, has, t) ==
    IF ~success /\ has
    THEN [q |-> Append(qs.q, t), in_progress |-> qs.in_progress - 1]
    ELSE [q |-> qs.q, in_progress |-> qs.in_progress - 1]

\* ------------------------------------------------------------------- state
VARIABLES
    fs,          \* the backup root: key -> Absent | file | dir
    fsChanges,   \* number of modifications made to the backup root
    clock,       \* wall clock, seconds
    queues,      \* pre_send, send, sent: [q, in_progress]
    pre,         \* pre-send workers: [pc, item, out, res]
    snd,         \* send workers: [pc, item, res]
    snt,         \* the insert worker: [pc, item, res]
    store,       \* the object store: sha256 (the blob's name) -> the blob's bytes
    db_sets,     \* backup_set table: row id -> at
    db_nodes,    \* node table in id order
    controller,  \* BackupSetController.current
    eng,         \* the engine thread
    changes,     \* the watcher's change set
    watching,    \* the watcher thread has been started
    fails,       \* failures injected so far
    hist,        \* history of pushes, completions and re-enqueues
    out          \* what the last restore, send or verify call returned

vars == <<fs, fsChanges, clock, queues, pre, snd, snt, store, db_sets, db_nodes,
          controller, eng, changes, watching, fails, hist, out>>


\* ------------------------------------------------------------------- index
NoController == [open |-> FALSE, index |-> NoSet, in_memory |-> <<>>]

\* ControllerOpen that replaces the open set instead of panicking
ControllerOpenReplaces(ctrl, index) ==
    [panic |-> FALSE, ctrl |-> [open |-> TRUE, index |-> index, in_memory |-> <<>>]]

\* BackupSetController::open: panics when a set is already open
ControllerOpen(ctrl, index) ==
    IF ctrl.open
    THEN [panic |-> TRUE, ctrl |-> ctrl]
    ELSE [panic |-> FALSE, ctrl |-> [open |-> TRUE, index |-> index, in_memory |-> <<>>]]

\* insert that stages the node twice
BackupSetInsertTwice(ctrl, node) == [ctrl EXCEPT !.in_memory = Append(Append(@, node), node)]

\* BackupSet::insert through SqlLightIndex::insert: stage, no database write
BackupSetInsert(ctrl, node) == [ctrl EXCEPT !.in_memory = Append(@, node)]

\* ids of the node rows of a path
RowsOf(nodes, path) == {i \in DOMAIN nodes : nodes[i].path = path}

MaxOf(S) == CHOOSE x \in S : \A y \in S : y <= x

\* SqlLightIndex::get(path, None): GET_LATEST_QUERY_SQL
IndexGet(nodes, path) ==
    IF RowsOf(nodes, path) = {} THEN NoNode ELSE nodes[MaxOf(RowsOf(nodes, path))]

\* SqlLightIndex::list("", None): LIST_LATEST_QUERY_SQL, the paths that have a
\* row under the root, in path order
KnownKeys(nodes) == {k \in Keys : RowsOf(nodes, k) # {}}

RECURSIVE SortedKeys(_)
SortedKeys(S) ==
    IF S = {} THEN <<>>
    ELSE LET k == CHOOSE x \in S : \A y \in S : KeyOrder(x) <= KeyOrder(y)
         IN <<k>> \o SortedKeys(S \ {k})

\* IndexGetFrom that runs the query of get(path, None)
IndexGetFromLatest(sets, nodes, path, t) == IndexGet(nodes, path)

\* SqlLightIndex::get(path, Some(t)): GET_FROM_QUERY_SQL, the join with
\* backup_set keeps the rows whose set exists and has at <= t
IndexGetFrom(sets, nodes, path, t) ==
    LET rows == {i \in RowsOf(nodes, path) :
                    /\ nodes[i].backup_set \in DOMAIN sets
                    /\ sets[nodes[i].backup_set] <= t}
    IN IF rows = {} THEN NoNode ELSE nodes[MaxOf(rows)]

\* the subquery of the list queries: SELECT MAX(node.id) of the nodes whose
\* parent is the given path, GROUP BY path_id
MaxIdPerChild(nodes, parent) ==
    {i \in DOMAIN nodes :
        /\ ParentOf(nodes[i].path) = parent
        /\ \A j \in DOMAIN nodes : nodes[j].path = nodes[i].path => j <= i}

\* ORDER BY path.path ASC
RECURSIVE OrderByPath(_, _)
OrderByPath(nodes, rows) ==
    IF rows = {} THEN <<>>
    ELSE LET i == CHOOSE x \in rows :
                     \A y \in rows : PathOrder(nodes[x].path) <= PathOrder(nodes[y].path)
         IN <<nodes[i]>> \o OrderByPath(nodes, rows \ {i})

\* SqlLightIndex::list(parent, None): LIST_LATEST_QUERY_SQL
IndexList(nodes, parent) == OrderByPath(nodes, MaxIdPerChild(nodes, parent))

\* SqlLightIndex::list(parent, Some(t)): LIST_FROM_QUERY_SQL. The subquery
\* has no backup_set in its FROM, so its "backup_set.at <= ?" reads the set
\* of the outer row: an outer row is kept when its own set has at <= t and
\* its id is the largest id of its path.
IndexListFrom(sets, nodes, parent, t) ==
    OrderByPath(nodes, {i \in DOMAIN nodes :
                          /\ nodes[i].backup_set \in DOMAIN sets
                          /\ sets[nodes[i].backup_set] <= t
                          /\ i \in MaxIdPerChild(nodes, parent)})

\* SqlLightIndex::persist: one INSERT into node, outside any transaction; the
\* size column of a directory is NULL, which is read back as 0
Persist(nodes, node) ==
    Append(nodes, IF node.kind = "Dir" THEN [node EXCEPT !.size = 0] ELSE node)

\* ------------------------------------------------------------------ engine
IdleEngine == [pc |-> "idle", mode |-> "none", bs |-> NoSet, todo1 |-> {}, todo2 |-> <<>>,
               pending |-> NoNode, closing |-> <<>>, passes |-> 0, lens |-> 0,
               result |-> "none"]

\* process_change that hands every new node and tombstone to the pipeline
ProcessChangeQueuesAll(nodes, fsys, k, bs, now) ==
    LET node == IndexGet(nodes, k)
        file == get_file(fsys, k)
    IN IF file.kind = "None"
       THEN IF node.kind = "None"
            THEN [act |-> "skip", node |-> NoNode]
            ELSE [act |-> "queue", node |-> with_backup_set(as_deleted(node, now), bs)]
       ELSE IF node.kind # "None" /\ file.size = node.size /\ file.mtime = node.mtime
            THEN [act |-> "skip", node |-> NoNode]
            ELSE [act |-> "queue", node |-> with_backup_set(file, bs)]

\* DefaultEngine::process_change: the decision for one key
ProcessChangeDecision(nodes, fsys, k, bs, now) ==
    LET node == IndexGet(nodes, k)
        file == get_file(fsys, k)
    IN IF file.kind = "None"
       THEN IF node.kind = "None"
            THEN [act |-> "skip", node |-> NoNode]
            ELSE [act |-> "insert", node |-> with_backup_set(as_deleted(node, now), bs)]
       ELSE IF node.kind = "None"
            THEN [act |-> IF file.kind = "File" THEN "queue" ELSE "insert",
                  node |-> with_backup_set(file, bs)]
            ELSE IF node.kind = "Dir" /\ file.kind = "Dir"
                 THEN [act |-> "skip", node |-> NoNode]
                 ELSE IF file.size = node.size /\ file.mtime = node.mtime
                      THEN [act |-> "skip", node |-> NoNode]
                      ELSE [act |-> IF file.kind = "File" THEN "queue" ELSE "insert",
                            node |-> with_backup_set(file, bs)]

\* EngineConfig::max_file_size: None, or Some(size)
NoLimit == [some |-> FALSE, size |-> 0]
Limit(size) == [some |-> TRUE, size |-> size]

\* process_change without its max_file_size test
ProcessChangeUnlimited(limit, nodes, fsys, k, bs, now) ==
    ProcessChangeDecision(nodes, fsys, k, bs, now)

\* DefaultEngine::process_change under a configuration: an entry larger than
\* max_file_size is skipped before the index node is looked at
ProcessChangeLimited(limit, nodes, fsys, k, bs, now) ==
    IF get_file(fsys, k).kind # "None" /\ limit.some /\ get_file(fsys, k).size > limit.size
    THEN [act |-> "skip", node |-> NoNode]
    ELSE ProcessChangeDecision(nodes, fsys, k, bs, now)

\* a worker between two loop iterations; res is the result its loop body matches on
IdlePre == [pc |-> "pop", item |-> NoItem, out |-> NoReq, res |-> "none"]
IdleWorker == [pc |-> "pop", item |-> NoItem, res |-> "none"]

NoHist == [pushed |-> {}, npush |-> [n \in QueueNames |-> 0],
           nsucc |-> [n \in QueueNames |-> 0], requeued |-> [k \in Keys |-> 0],
           prefailed |-> {}, buffers |-> <<>>, panic |-> "none"]

\* no call has returned yet
NoOut == [op |-> "none"]
\* an object store without blobs
EmptyStore == [h \in {} |-> 0]
\* the object store after the bodies ds were sent
StoreOf(ds) == [h \in {Sha256(d) : d \in ds} |-> CHOOSE d \in ds : Sha256(d) = h]

\* the engine, its index and its object store right after construction
InitEngine ==
    /\ fsChanges = 0
    /\ clock = 1
    /\ queues = [n \in QueueNames |-> EmptyQueue]
    /\ pre = [w \in PreIds |-> IdlePre]
    /\ snd = [w \in SendIds |-> IdleWorker]
    /\ snt = IdleWorker
    /\ store = EmptyStore
    /\ db_sets = <<>>
    /\ db_nodes = <<>>
    /\ controller = NoController
    /\ eng = IdleEngine
    /\ changes = {}
    /\ watching = FALSE
    /\ hist = NoHist
    /\ out = NoOut

InitBase ==
    /\ fs \in [Keys -> {Absent, FsFile(0, 1), FsDir(0)}]
    /\ InitEngine

Init == InitBase /\ fails = 0

\* ------------------------------------------------------------- environment
\* a file or directory of the backup root is created, rewritten or removed;
\* the watcher, once started, records the path in the change set
FsChange(k, e) ==
    /\ fsChanges < MaxFsChanges
    /\ e # fs[k]
    /\ fs' = [fs EXCEPT ![k] = e]
    /\ fsChanges' = fsChanges + 1
    /\ clock' = clock + 1
    /\ changes' = IF watching THEN changes \cup {k} ELSE changes
    /\ UNCHANGED <<queues, pre, snd, snt, store, db_sets, db_nodes, controller, eng,
                   watching, fails, hist, out>>

\* Watcher::watch: a notify event for a path arrives and the closure of
\* Engine::run inserts the Change into the shared set
WatchEvent(k) ==
    /\ watching
    /\ k \notin changes
    /\ changes' = changes \cup {k}
    /\ UNCHANGED <<fs, fsChanges, clock, queues, pre, snd, snt, store, db_sets, db_nodes,
                   controller, eng, watching, fails, hist, out>>

\* --------------------------------------------------------- pre-send workers
\* PreSendWorker::run: self.ingest.pop()
PreSendPop(w) ==
    /\ pre[w].pc = "pop"
    /\ CanPop(queues["pre_send"])
    /\ pre' = [pre EXCEPT ![w] = [pc |-> "process",
                                  item |-> QueueItem(Head(queues["pre_send"].q)),
                                  out |-> NoReq, res |-> "none"]]
    /\ queues' = [queues EXCEPT !["pre_send"] = QueuePop(@)]
    /\ UNCHANGED <<fs, fsChanges, clock, snd, snt, store, db_sets, db_nodes, controller,
                   eng, changes, watching, fails, hist, out>>

\* QueueItem::take as PreSendWorker::run uses it: the worker gets the node
\* and the item keeps holding it until success()
take(item) == [value |-> item.t, item |-> item]

\* PreSendWorker::process: open and read the file, hash it
PreSendProcessOk(w) ==
    /\ pre[w].pc = "process"
    /\ LET n == take(pre[w].item).value
       IN /\ fs[n.path].kind = "File"
          /\ pre' = [pre EXCEPT ![w].pc = "push", ![w].res = "ok",
                                ![w].item = take(pre[w].item).item,
                                ![w].out = SendRequest(Sha256(fs[n.path].data),
                                                       set_hash(n, Sha256(fs[n.path].data)),
                                                       fs[n.path].data)]
    /\ UNCHANGED <<fs, fsChanges, clock, queues, snd, snt, store, db_sets, db_nodes,
                   controller, eng, changes, watching, fails, hist, out>>

\* PreSendProcessErr that signals success on the failed item
PreSendProcessErrSuccess(w) ==
    /\ pre[w].pc = "process"
    /\ fails < MaxFail
    /\ fails' = fails + 1
    /\ pre' = [pre EXCEPT ![w].pc = "drop", ![w].res = "err", ![w].item.success = TRUE]
    /\ hist' = [hist EXCEPT !.prefailed = @ \cup {pre[w].item.t}]
    /\ UNCHANGED <<fs, fsChanges, clock, queues, snd, snt, store, db_sets, db_nodes,
                   controller, eng, changes, watching, out>>

\* PreSendWorker::process returns Err: the file is gone, or the read fails
PreSendProcessErr(w) ==
    /\ pre[w].pc = "process"
    /\ LET n == take(pre[w].item).value
       IN \/ fs[n.path].kind # "File" /\ fails' = fails
          \/ fs[n.path].kind = "File" /\ fails < MaxFail /\ fails' = fails + 1
    /\ pre' = [pre EXCEPT ![w].pc = "drop", ![w].res = "err",
                          ![w].item = take(pre[w].item).item]
    /\ hist' = [hist EXCEPT !.prefailed = @ \cup {take(pre[w].item).value}]
    /\ UNCHANGED <<fs, fsChanges, clock, queues, snd, snt, store, db_sets, db_nodes,
                   controller, eng, changes, watching, out>>

\* self.outgest.push(req), then item.success()
PreSendPush(w) ==
    /\ pre[w].pc = "push"
    /\ CanPush(queues["send"])
    /\ queues' = [queues EXCEPT !["send"] = QueuePush(@, pre[w].out)]
    /\ pre' = [pre EXCEPT ![w].pc = "drop", ![w].item.success = TRUE, ![w].out = NoReq]
    /\ hist' = [hist EXCEPT !.npush["send"] = @ + 1]
    /\ UNCHANGED <<fs, fsChanges, clock, snd, snt, store, db_sets, db_nodes, controller,
                   eng, changes, watching, fails, out>>

\* the QueueItem goes out of scope at the end of the loop body
PreSendDrop(w) ==
    /\ pre[w].pc = "drop"
    /\ queues' = [queues EXCEPT !["pre_send"] =
                      QueueItemDrop(@, pre[w].item.success, pre[w].item.has, pre[w].item.t)]
    /\ pre' = [pre EXCEPT ![w] = IdlePre]
    /\ hist' = [hist EXCEPT !.nsucc["pre_send"] = IF pre[w].item.success THEN @ + 1 ELSE @]
    /\ UNCHANGED <<fs, fsChanges, clock, snd, snt, store, db_sets, db_nodes, controller,
                   eng, changes, watching, fails, out>>


\* ------------------------------------------------------------- send workers
\* send worker: send_queue.pop()
SendPop(w) ==
    /\ snd[w].pc = "pop"
    /\ CanPop(queues["send"])
    /\ snd' = [snd EXCEPT ![w] = [pc |-> "send", item |-> QueueItem(Head(queues["send"].q)),
                                  res |-> "none"]]
    /\ queues' = [queues EXCEPT !["send"] = QueuePop(@)]
    /\ UNCHANGED <<fs, fsChanges, clock, pre, snt, store, db_sets, db_nodes, controller,
                   eng, changes, watching, fails, hist, out>>

\* send that creates the blob's file anew when the name exists already
StorageSendTruncates(st, req) ==
    [h \in DOMAIN st \cup {req.sha256} |->
        IF h # req.sha256 THEN st[h] ELSE IF h \in DOMAIN st THEN 0 ELSE req.data]

\* Storage::send: the body is stored under its sha256; when a blob of that
\* name exists nothing is written
StorageSend(st, req) ==
    IF req.sha256 \in DOMAIN st THEN st
    ELSE [h \in DOMAIN st \cup {req.sha256} |-> IF h = req.sha256 THEN req.data ELSE st[h]]

\* storage.send(item.as_mut()) returns Ok(())
SendOk(w) ==
    /\ snd[w].pc = "send"
    /\ store' = StorageSend(store, snd[w].item.t)
    /\ snd' = [snd EXCEPT ![w].pc = "push", ![w].res = "ok"]
    /\ UNCHANGED <<fs, fsChanges, clock, queues, pre, snt, db_sets, db_nodes, controller,
                   eng, changes, watching, fails, hist, out>>

\* SendErr that goes on to push the node to sent
SendErrPushes(w) ==
    /\ snd[w].pc = "send"
    /\ fails < MaxFail
    /\ fails' = fails + 1
    /\ snd' = [snd EXCEPT ![w].pc = "push", ![w].res = "err"]
    /\ UNCHANGED <<fs, fsChanges, clock, queues, pre, snt, store, db_sets, db_nodes,
                   controller, eng, changes, watching, hist, out>>

\* storage.send returns Err: logged, the item is dropped without success
SendErr(w) ==
    /\ snd[w].pc = "send"
    /\ fails < MaxFail
    /\ fails' = fails + 1
    /\ snd' = [snd EXCEPT ![w].pc = "drop", ![w].res = "err"]
    /\ UNCHANGED <<fs, fsChanges, clock, queues, pre, snt, store, db_sets, db_nodes,
                   controller, eng, changes, watching, hist, out>>

\* sent_queue.push(item.as_ref().node().clone()), then item.success()
SendPush(w) ==
    /\ snd[w].pc = "push"
    /\ CanPush(queues["sent"])
    /\ queues' = [queues EXCEPT !["sent"] = QueuePush(@, snd[w].item.t.node)]
    /\ snd' = [snd EXCEPT ![w].pc = "drop", ![w].item.success = TRUE]
    /\ hist' = [hist EXCEPT !.npush["sent"] = @ + 1]
    /\ UNCHANGED <<fs, fsChanges, clock, pre, snt, store, db_sets, db_nodes, controller,
                   eng, changes, watching, fails, out>>

\* the QueueItem goes out of scope at the end of the loop body
SendDrop(w) ==
    /\ snd[w].pc = "drop"
    /\ queues' = [queues EXCEPT !["send"] =
                      QueueItemDrop(@, snd[w].item.success, snd[w].item.has, snd[w].item.t)]
    /\ snd' = [snd EXCEPT ![w] = IdleWorker]
    /\ hist' = [hist EXCEPT
                  !.nsucc["send"] = IF snd[w].item.success THEN @ + 1 ELSE @,
                  !.requeued[snd[w].item.t.node.path] =
                      IF snd[w].item.success THEN @ ELSE @ + 1]
    /\ UNCHANGED <<fs, fsChanges, clock, pre, snt, store, db_sets, db_nodes, controller,
                   eng, changes, watching, fails, out>>

\* -------------------------------------------------------- the insert worker
\* insert worker: sent_queue.pop()
SentPop ==
    /\ snt.pc = "pop"
    /\ CanPop(queues["sent"])
    /\ snt' = [pc |-> "insert", item |-> QueueItem(Head(queues["sent"].q)), res |-> "none"]
    /\ queues' = [queues EXCEPT !["sent"] = QueuePop(@)]
    /\ UNCHANGED <<fs, fsChanges, clock, pre, snd, store, db_sets, db_nodes, controller,
                   eng, changes, watching, fails, hist, out>>

\* index.insert(item.as_ref().clone()) returns Ok: staged, item.success()
SentInsertOk ==
    /\ snt.pc = "insert"
    /\ controller.open
    /\ controller' = BackupSetInsert(controller, snt.item.t)
    /\ snt' = [snt EXCEPT !.pc = "drop", !.res = "ok", !.item.success = TRUE]
    /\ UNCHANGED <<fs, fsChanges, clock, queues, pre, snd, store, db_sets, db_nodes, eng,
                   changes, watching, fails, hist, out>>

\* index.insert returns Err (logged, the item is dropped without success), or
\* panics because no backup set is open (the thread unwinds and ends)
SentInsertErr ==
    /\ snt.pc = "insert"
    /\ \/ /\ ~controller.open
          /\ fails' = fails
          /\ snt' = [snt EXCEPT !.pc = "unwind", !.res = "err"]
       \/ /\ fails < MaxFail
          /\ fails' = fails + 1
          /\ snt' = [snt EXCEPT !.pc = "drop", !.res = "err"]
    /\ UNCHANGED <<fs, fsChanges, clock, queues, pre, snd, store, db_sets, db_nodes,
                   controller, eng, changes, watching, hist, out>>

\* the QueueItem goes out of scope at the end of the loop body
SentDrop ==
    /\ snt.pc \in {"drop", "unwind"}
    /\ queues' = [queues EXCEPT !["sent"] =
                      QueueItemDrop(@, snt.item.success, snt.item.has, snt.item.t)]
    /\ snt' = [IdleWorker EXCEPT !.pc = IF snt.pc = "unwind" THEN "dead" ELSE "pop"]
    /\ hist' = [hist EXCEPT !.nsucc["sent"] = IF snt.item.success THEN @ + 1 ELSE @]
    /\ UNCHANGED <<fs, fsChanges, clock, pre, snd, store, db_sets, db_nodes, controller,
                   eng, changes, watching, fails, out>>


\* ------------------------------------------------------------------ engine
\* SqlLightIndex::create_backup_set: INSERT INTO backup_set, then
\* BackupSetController::open; the engine record after it
CreateBackupSet(now, mode, todo, next) ==
    LET index == Len(db_sets) + 1
        r == ControllerOpen(controller, index)
    IN /\ db_sets' = Append(db_sets, now)
       /\ controller' = r.ctrl
       /\ eng' = IF r.panic
                 THEN [eng EXCEPT !.pc = "panicked", !.mode = mode]
                 ELSE [eng EXCEPT !.pc = next, !.mode = mode, !.bs = index,
                                  !.todo1 = todo, !.todo2 = <<>>,
                                  !.passes = @ + 1, !.result = "none"]
       /\ hist' = [hist EXCEPT
                     !.pushed = IF r.panic THEN @ ELSE {},
                     !.prefailed = IF r.panic THEN @ ELSE {},
                     !.requeued = IF r.panic THEN @ ELSE [k \in Keys |-> 0],
                     !.buffers = Append(@, <<>>),
                     !.panic = IF r.panic THEN "backup set already open" ELSE @]

\* DefaultEngine::scan_as_backup_set: create_backup_set(now)
ScanAsBackupSet ==
    /\ eng.pc = "idle"
    /\ eng.passes < MaxPasses
    /\ CreateBackupSet(clock, "scan", {}, "scan_dir")
    /\ UNCHANGED <<fs, fsChanges, clock, queues, pre, snd, snt, store, db_nodes, changes,
                   watching, fails, out>>

\* Engine::run: start the watcher thread, create_backup_set(now), scan
RunStart ==
    /\ eng.pc = "idle"
    /\ eng.passes < MaxPasses
    /\ watching' = TRUE
    /\ CreateBackupSet(clock, "run", {}, "scan_dir")
    /\ UNCHANGED <<fs, fsChanges, clock, queues, pre, snd, snt, store, db_nodes, changes,
                   fails, out>>

\* scan without its loop over the known nodes
ScanDirEntriesOnly ==
    /\ eng.pc = "scan_dir"
    /\ eng' = [eng EXCEPT !.pc = "process", !.todo1 = {k \in Keys : fs[k].kind # "Absent"},
                          !.todo2 = <<>>]
    /\ UNCHANGED <<fs, fsChanges, clock, queues, pre, snd, snt, store, db_sets, db_nodes,
                   controller, changes, watching, fails, hist, out>>

\* DefaultEngine::scan: read_dir of the root and index.list of its known nodes
ScanDir ==
    /\ eng.pc = "scan_dir"
    /\ LET ls == {k \in Keys : fs[k].kind # "Absent"}
       IN eng' = [eng EXCEPT !.pc = "process", !.todo1 = ls,
                             !.todo2 = SortedKeys(KnownKeys(db_nodes) \ ls)]
    /\ UNCHANGED <<fs, fsChanges, clock, queues, pre, snd, snt, store, db_sets, db_nodes,
                   controller, changes, watching, fails, hist, out>>

\* process_change for the next entry of the directory (or of the work queue),
\* then for the next known node that has no entry on disk, under a
\* configured max_file_size
ProcessChangeWith(limit, k) ==
    /\ eng.pc = "process"
    /\ \/ k \in eng.todo1
       \/ eng.todo1 = {} /\ eng.todo2 # <<>> /\ k = Head(eng.todo2)
    /\ LET d == ProcessChangeLimited(limit, db_nodes, fs, k, eng.bs, clock)
           rest == IF k \in eng.todo1
                   THEN [eng EXCEPT !.todo1 = @ \ {k}]
                   ELSE [eng EXCEPT !.todo2 = Tail(@)]
       IN /\ eng' = CASE d.act = "queue" -> [rest EXCEPT !.pc = "push", !.pending = d.node]
                      [] d.act = "insert" /\ ~controller.open -> [rest EXCEPT !.pc = "panicked"]
                      [] OTHER -> rest
          /\ controller' = IF d.act = "insert" /\ controller.open
                           THEN BackupSetInsert(controller, d.node)
                           ELSE controller
    /\ UNCHANGED <<fs, fsChanges, clock, queues, pre, snd, snt, store, db_sets, db_nodes,
                   changes, watching, fails, hist, out>>

\* process_change when no max_file_size is configured
ProcessChange(k) == ProcessChangeWith(NoLimit, k)

\* process_change when max_file_size is MaxFileSize
ProcessChangeAtLimit(k) == ProcessChangeWith(Limit(MaxFileSize), k)

\* queue_for_send of a file node: self.pre_send_queue.push(n)
EnginePush ==
    /\ eng.pc = "push"
    /\ CanPush(queues["pre_send"])
    /\ queues' = [queues EXCEPT !["pre_send"] = QueuePush(@, eng.pending)]
    /\ eng' = [eng EXCEPT !.pc = "process", !.pending = NoNode]
    /\ hist' = [hist EXCEPT !.pushed = @ \cup {eng.pending}, !.npush["pre_send"] = @ + 1]
    /\ UNCHANGED <<fs, fsChanges, clock, pre, snd, snt, store, db_sets, db_nodes,
                   controller, changes, watching, fails, out>>

\* wait_for_queue_drain: pre_send_queue.wait(), send_queue.wait(), sent_queue.wait()
EngineWait ==
    /\ \/ eng.pc = "process" /\ eng.todo1 = {} /\ eng.todo2 = <<>>
          /\ WaitDone(queues["pre_send"]) /\ eng' = [eng EXCEPT !.pc = "wait_send"]
       \/ eng.pc = "wait_send" /\ WaitDone(queues["send"])
          /\ eng' = [eng EXCEPT !.pc = "wait_sent"]
       \/ eng.pc = "wait_sent" /\ WaitDone(queues["sent"])
          /\ eng' = [eng EXCEPT !.pc = "len_pre", !.lens = 0]
    /\ UNCHANGED <<fs, fsChanges, clock, queues, pre, snd, snt, store, db_sets, db_nodes,
                   controller, changes, watching, fails, hist, out>>

\* wait_for_queue_drain: the three len() reads and the panic when their sum
\* is positive; then scan_as_backup_set goes on to close, run to the next period
EngineLen ==
    /\ \/ eng.pc = "len_pre"
          /\ eng' = [eng EXCEPT !.pc = "len_send", !.lens = QueueLen(queues["pre_send"])]
          /\ hist' = hist
       \/ eng.pc = "len_send"
          /\ eng' = [eng EXCEPT !.pc = "len_sent", !.lens = @ + QueueLen(queues["send"])]
          /\ hist' = hist
       \/ eng.pc = "len_sent"
          /\ LET sum == eng.lens + QueueLen(queues["sent"])
             IN /\ eng' = [eng EXCEPT !.lens = sum,
                                      !.pc = IF sum > 0 THEN "panicked"
                                             ELSE IF eng.mode = "scan" THEN "close"
                                             ELSE "sleep"]
                /\ hist' = [hist EXCEPT !.panic = IF sum > 0 THEN "Items still in queue"
                                                  ELSE @]
    /\ UNCHANGED <<fs, fsChanges, clock, queues, pre, snd, snt, store, db_sets, db_nodes,
                   controller, changes, watching, fails, out>>

\* SqlLightIndex::close_backup_set: ctrl.flush() takes the open set
CloseFlush ==
    /\ eng.pc = "close"
    /\ IF controller.open
       THEN /\ eng' = [eng EXCEPT !.pc = "persist", !.closing = controller.in_memory]
            /\ controller' = NoController
            /\ hist' = [hist EXCEPT !.buffers[controller.index] = controller.in_memory]
       ELSE /\ eng' = [eng EXCEPT !.pc = "panicked"]
            /\ controller' = controller
            /\ hist' = [hist EXCEPT !.panic = "no backup set open"]
    /\ UNCHANGED <<fs, fsChanges, clock, queues, pre, snd, snt, store, db_sets, db_nodes,
                   changes, watching, fails, out>>

\* close_backup_set: self.persist(node)? for the next staged node
PersistOk ==
    /\ eng.pc = "persist"
    /\ eng.closing # <<>>
    /\ validate(Head(eng.closing))
    /\ db_nodes' = Persist(db_nodes, Head(eng.closing))
    /\ eng' = [eng EXCEPT !.closing = Tail(@)]
    /\ UNCHANGED <<fs, fsChanges, clock, queues, pre, snd, snt, store, db_sets, controller,
                   changes, watching, fails, hist, out>>

\* close_backup_set: persist fails (a statement error), the ? returns the Err
PersistErr ==
    /\ eng.pc = "persist"
    /\ eng.closing # <<>>
    /\ fails < MaxFail
    /\ fails' = fails + 1
    /\ eng' = [eng EXCEPT !.pc = "idle", !.mode = "none", !.closing = <<>>,
                          !.result = "err"]
    /\ UNCHANGED <<fs, fsChanges, clock, queues, pre, snd, snt, store, db_sets, db_nodes,
                   controller, changes, watching, hist, out>>

\* close_backup_set returns Ok(()), and scan_as_backup_set with it
CloseDone ==
    /\ eng.pc = "persist"
    /\ eng.closing = <<>>
    /\ eng' = [eng EXCEPT !.pc = "idle", !.mode = "none", !.result = "ok"]
    /\ UNCHANGED <<fs, fsChanges, clock, queues, pre, snd, snt, store, db_sets, db_nodes,
                   controller, changes, watching, fails, hist, out>>

\* Engine::run, one period: drain the change set into the work queue and, when
\* it is not empty, create_backup_set(next_time) and process each change
PeriodTick ==
    /\ eng.pc = "sleep"
    /\ eng.passes < MaxPasses
    /\ changes' = {}
    /\ IF changes # {}
       THEN CreateBackupSet(clock, "run", changes, "process")
       ELSE /\ eng' = [eng EXCEPT !.pc = "process", !.todo1 = {}, !.todo2 = <<>>,
                                  !.passes = @ + 1]
            /\ UNCHANGED <<db_sets, controller, hist, out>>
    /\ UNCHANGED <<fs, fsChanges, clock, queues, pre, snd, snt, store, db_nodes, watching,
                   fails, out>>

\* the pipeline workers
Workers ==
    \/ \E w \in PreIds : PreSendPop(w)
    \/ \E w \in PreIds : PreSendProcessOk(w)
    \/ \E w \in PreIds : PreSendProcessErr(w)
    \/ \E w \in PreIds : PreSendPush(w)
    \/ \E w \in PreIds : PreSendDrop(w)
    \/ \E w \in SendIds : SendPop(w)
    \/ \E w \in SendIds : SendOk(w)
    \/ \E w \in SendIds : SendPush(w)
    \/ \E w \in SendIds : SendDrop(w)
    \/ SentPop
    \/ SentInsertOk
    \/ SentDrop

\* the engine thread
Engine ==
    \/ ScanAsBackupSet
    \/ RunStart
    \/ ScanDir
    \/ \E k \in Keys : ProcessChange(k)
    \/ EnginePush
    \/ EngineWait
    \/ EngineLen
    \/ CloseFlush
    \/ PersistOk
    \/ CloseDone
    \/ PeriodTick
    \/ \E k \in Keys : WatchEvent(k)

\* The pipeline on an unchanging backup root, with failing reads, uploads,
\* index inserts and persists.
Next ==
    \/ Workers
    \/ Engine
    \/ \E w \in SendIds : SendErr(w)
    \/ SentInsertErr
    \/ PersistErr

Spec == Init /\ [][Next]_vars

\* The engine on a backup root that changes while it runs, without injected
\* failures.
InitRun == InitBase /\ fails = MaxFail

NextRun ==
    \/ \E k \in Keys : \E e \in {Absent, FsDir(clock)} \cup {FsFile(clock, d) : d \in Contents} :
          FsChange(k, e)
    \/ Workers
    \/ Engine

SpecRun == InitRun /\ [][NextRun]_vars

\* Engine::run alone: the watcher, the initial scan and the periods after it,
\* on a backup root that changes.
NextWatch ==
    \/ \E k \in Keys : \E e \in {Absent, FsDir(clock)} \cup {FsFile(clock, d) : d \in Contents} :
          FsChange(k, e)
    \/ \E k \in Keys : WatchEvent(k)
    \/ RunStart
    \/ ScanDir
    \/ \E k \in Keys : ProcessChange(k)
    \/ EnginePush
    \/ EngineWait
    \/ EngineLen
    \/ PeriodTick
    \/ Workers

SpecWatch == InitRun /\ [][NextWatch]_vars

\* --------------------------------------------------------- the index alone
\* Index::create_backup_set(at) called by a user of the index
ApiCreate(at) ==
    /\ eng.pc = "idle"
    /\ Len(db_sets) < MaxSets
    /\ CreateBackupSet(at, "api", {}, "idle")
    /\ UNCHANGED <<fs, fsChanges, clock, queues, pre, snd, snt, store, db_nodes, changes,
                   watching, fails, out>>

\* SqlLightIndex::insert(node): expect!(ctrl.get(), "backup set"), then stage
ApiInsert(n) ==
    /\ eng.pc = "idle"
    /\ IF controller.open
       THEN /\ Len(controller.in_memory) < MaxStaged
            /\ controller' = BackupSetInsert(controller, n)
            /\ UNCHANGED <<eng, hist, out>>
       ELSE /\ eng' = [eng EXCEPT !.pc = "panicked"]
            /\ hist' = [hist EXCEPT !.panic = "backup set"]
            /\ UNCHANGED controller
    /\ UNCHANGED <<fs, fsChanges, clock, queues, pre, snd, snt, store, db_sets, db_nodes,
                   changes, watching, fails, out>>

\* Index::close_backup_set called by a user of the index
ApiClose ==
    /\ eng.pc = "idle"
    /\ eng' = [eng EXCEPT !.pc = "close", !.mode = "api", !.bs = controller.index]
    /\ UNCHANGED <<fs, fsChanges, clock, queues, pre, snd, snt, store, db_sets, db_nodes,
                   controller, changes, watching, fails, hist, out>>

\* close_backup_set: node.validate() in persist panics
PersistPanic ==
    /\ eng.pc = "persist"
    /\ eng.closing # <<>>
    /\ ~validate(Head(eng.closing))
    /\ eng' = [eng EXCEPT !.pc = "panicked"]
    /\ hist' = [hist EXCEPT !.panic = "validate"]
    /\ UNCHANGED <<fs, fsChanges, clock, queues, pre, snd, snt, store, db_sets, db_nodes,
                   controller, changes, watching, fails, out>>

\* an index that nothing but the API calls touch
InitIndex ==
    /\ fs = [k \in Keys |-> Absent]
    /\ InitEngine
    /\ fails = MaxFail

\* Node values a caller can build for the path "a": every combination of
\* kind, deleted, hash and mode, a directory with a size, and a backup_set
\* that is the open set, a set that does not exist, or missing
ArbNodes ==
    LET shapes == {[path |-> "a", kind |-> k, mtime |-> 0, size |-> sz, mode |-> m,
                    deleted |-> d, hash |-> h, backup_set |-> NoSet] :
                      k \in {"File", "Dir"}, sz \in {0, 1}, m \in {0, FileMode},
                      d \in BOOLEAN, h \in {NoHash, Sha256(1)}}
        built == {n \in shapes : n.kind = "File" => n.size = 1}
    IN {with_backup_set(n, b) : n \in built, b \in {controller.index, MaxSets + 1}}
         \cup {new_dir("a", 0, FileMode)}

\* The index under create_backup_set / insert / close_backup_set with
\* arbitrary nodes, one node to a set.
NextIndex ==
    \/ \E at \in 1..MaxSets : ApiCreate(at)
    \/ \E n \in ArbNodes : controller.in_memory = <<>> /\ ApiInsert(n)
    \/ ApiClose
    \/ CloseFlush
    \/ PersistOk
    \/ PersistPanic
    \/ CloseDone

SpecIndex == InitIndex /\ [][NextIndex]_vars

\* the nodes an engine pass stages for a path: a file revision, a directory,
\* a tombstone of the latest revision
PassNodes(bs) ==
    {with_backup_set(set_hash(new_file(p, bs, 1, FileMode), Sha256(1)), bs) : p \in Paths}
        \cup {with_backup_set(as_deleted(IndexGet(db_nodes, p), bs), bs) :
                 p \in {q \in Paths : IndexGet(db_nodes, q).kind # "None"}}

\* The index under histories of backup sets of valid nodes, each set staged in
\* the path order of a pass.
NextQuery ==
    \/ \E at \in 1..MaxSets : ApiCreate(at)
    \/ \E n \in PassNodes(controller.index) :
          /\ \A i \in DOMAIN controller.in_memory :
                PathOrder(controller.in_memory[i].path) < PathOrder(n.path)
          /\ ApiInsert(n)
    \/ ApiClose
    \/ CloseFlush
    \/ PersistOk
    \/ CloseDone

SpecQuery == InitIndex /\ [][NextQuery]_vars

\* ------------------------------------------------- one pass over a history
\* the file bodies of a changing root, the empty file among them
Bodies == 0..NumContents

\* what two closed passes leave in the index for a key: nothing, a revision
\* staged by the first pass, or that revision and the tombstone staged by the
\* second pass
Histories(k) ==
    LET lives == {with_backup_set(set_hash(new_file(k, 1, SizeOf(d), FileMode), Sha256(d)), 1) :
                     d \in Bodies}
                   \cup {with_backup_set(new_dir(k, 1, DirMode), 1)}
    IN {<<>>} \cup {<<n>> : n \in lives}
         \cup {<<n, with_backup_set(as_deleted(n, 2), 2)>> : n \in lives}

\* the rows persisted by pass j for the keys from the i-th on
RECURSIVE RowsOfPass(_, _, _)
RowsOfPass(h, j, i) ==
    IF i > Len(KeyNames) THEN <<>>
    ELSE (IF Len(h[KeyNames[i]]) >= j THEN <<h[KeyNames[i]][j]>> ELSE <<>>)
            \o RowsOfPass(h, j, i + 1)

\* scan_as_backup_set has opened the third backup set over such a history
InitHistory ==
    /\ fsChanges = 0
    /\ clock = 3
    /\ queues = [n \in QueueNames |-> EmptyQueue]
    /\ pre = [w \in PreIds |-> IdlePre]
    /\ snd = [w \in SendIds |-> IdleWorker]
    /\ snt = IdleWorker
    /\ store = StoreOf(Bodies)
    /\ db_sets = <<1, 2, 3>>
    /\ \E h \in {g \in [Keys -> UNION {Histories(k) : k \in Keys}] :
                    \A k \in Keys : g[k] \in Histories(k)} :
          /\ db_nodes = RowsOfPass(h, 1, 1) \o RowsOfPass(h, 2, 1)
          /\ hist = [NoHist EXCEPT
                       !.buffers = <<RowsOfPass(h, 1, 1), RowsOfPass(h, 2, 1), <<>>>>]
    /\ controller = [open |-> TRUE, index |-> 3, in_memory |-> <<>>]
    /\ eng = [IdleEngine EXCEPT !.pc = "scan_dir", !.mode = "scan", !.bs = 3, !.passes = 1]
    /\ changes = {}
    /\ watching = FALSE
    /\ fails = MaxFail
    /\ out = NoOut

\* the third pass starts over such a history and a root in any state
InitChange ==
    /\ fs \in [Keys -> {Absent} \cup {FsFile(m, d) : m \in {1, 2}, d \in Bodies}
                         \cup {FsDir(m) : m \in {1, 2}}]
    /\ InitHistory

\* The scan of the third pass: read_dir and list, then process_change for
\* each entry and each known node without entry.
NextChange ==
    \/ ScanDir
    \/ \E k \in Keys : ProcessChange(k)
    \/ EnginePush

SpecChange == InitChange /\ [][NextChange]_vars

\* The scan of the third pass when max_file_size is configured.
NextLimit ==
    \/ ScanDir
    \/ \E k \in Keys : ProcessChangeAtLimit(k)
    \/ EnginePush

SpecLimit == InitChange /\ [][NextLimit]_vars

\* the third pass starts over such a history and a root whose entries were
\* all written in the last second
InitPass ==
    /\ fs \in [Keys -> {Absent, FsFile(2, 1), FsDir(2)}]
    /\ InitHistory

\* The scan of the third pass and the worker threads that serve it, without
\* failures.
NextPass ==
    \/ ScanDir
    \/ \E k \in Keys : ProcessChange(k)
    \/ EnginePush
    \/ \E w \in PreIds : PreSendPop(w) \/ PreSendProcessOk(w) \/ PreSendPush(w) \/ PreSendDrop(w)
    \/ \E w \in SendIds : SendPop(w) \/ SendOk(w) \/ SendPush(w) \/ SendDrop(w)
    \/ SentPop
    \/ SentInsertOk
    \/ SentDrop

SpecPass == InitPass /\ [][NextPass]_vars

\* ------------------------------------------------------------------ restore
StorageImpls == {"local", "s3"}
\* Cursor::new(vec![]): a body of no bytes
EmptyBody == 0
\* Ok(None) of Storage::retrieve
NoBody == [res |-> "none", data |-> EmptyBody]

\* Storage::retrieve. LocalStorage opens the file at the hash path: Ok(Some)
\* of its bytes, or the io::Error of File::open when there is no such file;
\* S3Storage answers every hash with Ok(Some) of an empty body. Neither
\* returns Ok(None).
Retrieve(impl, st, hash) ==
    IF impl = "s3" THEN [res |-> "some", data |-> EmptyBody]
    ELSE IF hash \in DOMAIN st
         THEN [res |-> "some", data |-> st[hash]]
         ELSE [res |-> "io_error", data |-> EmptyBody]

\* what restore returned and what it left at the target
Restored(res, kind, data, node) == [res |-> res, kind |-> kind, data |-> data, node |-> node]

\* DefaultEngine::restore_node for the node of one key (the children of a
\* directory are restored by the same steps, one by one)
RestoreNode(impl, st, node) ==
    CASE node.kind = "Dir" -> Restored("ok", "Dir", EmptyBody, NoNode)
      [] node.hash = NoHash -> Restored("panic", "None", EmptyBody, NoNode)
      [] Retrieve(impl, st, node.hash).res = "io_error" ->
            Restored("io_error", "None", EmptyBody, NoNode)
      [] Retrieve(impl, st, node.hash).res = "none" ->
            Restored("GeneralWithNode", "None", EmptyBody, node)
      [] OTHER -> Restored("ok", "File", Retrieve(impl, st, node.hash).data, NoNode)

\* Engine::restore(key, None, target): Other("Not Found: key") when the index
\* has no node for the key
Restore(impl, nodes, st, key) ==
    IF IndexGet(nodes, key).kind = "None"
    THEN Restored("NotFound", "None", EmptyBody, NoNode)
    ELSE RestoreNode(impl, st, IndexGet(nodes, key))

\* Engine::restore(key, Some(t), target)
RestoreFrom(impl, sets, nodes, st, key, t) ==
    IF IndexGetFrom(sets, nodes, key, t).kind = "None"
    THEN Restored("NotFound", "None", EmptyBody, NoNode)
    ELSE RestoreNode(impl, st, IndexGetFrom(sets, nodes, key, t))

\* restore_node for the listed children one after the other: what each call
\* left at the target, up to the first call that does not return Ok
RECURSIVE RestoreNodes(_, _, _)
RestoreNodes(impl, st, ls) ==
    IF ls = <<>> THEN <<>>
    ELSE LET r == RestoreNode(impl, st, Head(ls))
         IN IF r.res = "ok"
            THEN <<[path |-> Head(ls).path, r |-> r]>> \o RestoreNodes(impl, st, Tail(ls))
            ELSE <<[path |-> Head(ls).path, r |-> r]>>

\* Engine::restore("", None, target): restore_node for every node that
\* list("") returns; the result is that of the last call made
RestoreAll(impl, nodes, st) ==
    LET done == RestoreNodes(impl, st, IndexList(nodes, ""))
    IN [res |-> IF done = <<>> THEN "ok" ELSE done[Len(done)].r.res,
        created |-> {done[i].path : i \in {j \in DOMAIN done : done[j].r.kind # "None"}}]

\* ------------------------------------------------------ the queues on their own
\* the send threads of this section (the engine starts twelve)
QueueWorkerIds == 1..NumQueueWorkers

\* the request a pre-send worker makes of a one-byte file
RequestOf(k) ==
    SendRequest(Sha256(1), set_hash(with_backup_set(new_file(k, 0, SizeOf(1), FileMode), 1),
                                    Sha256(1)), 1)

\* a backup set is open and the pipeline is empty
InitQueue ==
    /\ fs = [k \in Keys |-> FsFile(0, 1)]
    /\ fsChanges = 0
    /\ clock = 1
    /\ queues = [n \in QueueNames |-> EmptyQueue]
    /\ pre = [w \in PreIds |-> IdlePre]
    /\ snd = [w \in QueueWorkerIds |-> IdleWorker]
    /\ snt = IdleWorker
    /\ store = EmptyStore
    /\ db_sets = <<1>>
    /\ db_nodes = <<>>
    /\ controller = [open |-> TRUE, index |-> 1, in_memory |-> <<>>]
    /\ eng = IdleEngine
    /\ changes = {}
    /\ watching = FALSE
    /\ fails = 0
    /\ hist = [NoHist EXCEPT !.buffers = <<<<>>>>]
    /\ out = NoOut

\* a pre-send worker's send_queue.push(req)
ProducerPush(k) ==
    /\ hist.npush["send"] < MaxPushes
    /\ CanPush(queues["send"])
    /\ queues' = [queues EXCEPT !["send"] = QueuePush(@, RequestOf(k))]
    /\ hist' = [hist EXCEPT !.npush["send"] = @ + 1]
    /\ UNCHANGED <<fs, fsChanges, clock, pre, snd, snt, store, db_sets, db_nodes, controller,
                   eng, changes, watching, fails, out>>

\* The send and sent queues between producers, several send threads whose
\* uploads may fail, and the insert thread.
NextQueue ==
    \/ ProducerPush("a")
    \/ \E w \in QueueWorkerIds : SendPop(w)
    \/ \E w \in QueueWorkerIds : SendOk(w)
    \/ \E w \in QueueWorkerIds : SendErr(w)
    \/ \E w \in QueueWorkerIds : SendPush(w)
    \/ \E w \in QueueWorkerIds : SendDrop(w)
    \/ SentPop
    \/ SentInsertOk
    \/ SentDrop

SpecQueue == InitQueue /\ [][NextQueue]_vars

\* ------------------------------------------------------- a damaged store
\* the stores a backup of the bodies ds can be found in: each blob is there
\* as sent, is missing, or holds other bytes than those it is named after
DamagedStores(ds) ==
    {st \in UNION {[hs -> ds] : hs \in SUBSET {Sha256(d) : d \in ds}} : TRUE}

\* two closed backup sets over any history of the keys, and any such store
InitStored ==
    /\ fs = [k \in Keys |-> Absent]
    /\ fsChanges = 0
    /\ clock = 3
    /\ queues = [n \in QueueNames |-> EmptyQueue]
    /\ pre = [w \in PreIds |-> IdlePre]
    /\ snd = [w \in SendIds |-> IdleWorker]
    /\ snt = IdleWorker
    /\ store \in DamagedStores(Bodies)
    /\ db_sets = <<1, 2>>
    /\ \E h \in {g \in [Keys -> UNION {Histories(k) : k \in Keys}] :
                    \A k \in Keys : g[k] \in Histories(k)} :
          /\ db_nodes = RowsOfPass(h, 1, 1) \o RowsOfPass(h, 2, 1)
          /\ hist = [NoHist EXCEPT !.buffers = <<RowsOfPass(h, 1, 1), RowsOfPass(h, 2, 1)>>]
    /\ controller = NoController
    /\ eng = IdleEngine
    /\ changes = {}
    /\ watching = FALSE
    /\ fails = MaxFail
    /\ out = NoOut

\* Engine::restore(key, None, target) with either Storage
ApiRestore(impl, key) ==
    /\ eng.pc = "idle"
    /\ out' = [op |-> "restore", impl |-> impl, key |-> key,
               node |-> IndexGet(db_nodes, key),
               r |-> Restore(impl, db_nodes, store, key)]
    /\ UNCHANGED <<fs, fsChanges, clock, queues, pre, snd, snt, store, db_sets, db_nodes,
                   controller, eng, changes, watching, fails, hist>>

\* Engine::restore(key, Some(t), target) with either Storage
ApiRestoreFrom(impl, key, t) ==
    /\ eng.pc = "idle"
    /\ out' = [op |-> "restore", impl |-> impl, key |-> key,
               node |-> IndexGetFrom(db_sets, db_nodes, key, t),
               r |-> RestoreFrom(impl, db_sets, db_nodes, store, key, t)]
    /\ UNCHANGED <<fs, fsChanges, clock, queues, pre, snd, snt, store, db_sets, db_nodes,
                   controller, eng, changes, watching, fails, hist>>

\* Restores from a backup whose store may be damaged.
NextRestore ==
    \/ \E impl \in StorageImpls : \E k \in Keys : ApiRestore(impl, k)
    \/ \E impl \in StorageImpls : \E k \in Keys : \E t \in 0..2 : ApiRestoreFrom(impl, k, t)

SpecRestore == InitStored /\ [][NextRestore]_vars

\* ----------------------------------------------------------------- verify
\* the characters of a path
PathChars(p) ==
    CASE p = "a" -> <<"a">>
      [] p = "b" -> <<"b">>
      [] p = "a/c" -> <<"a", "/", "c">>
      [] OTHER -> <<>>

\* the filters verify is called with: none, and a few characters
Filters == {<<>>, <<"a">>, <<"c">>, <<"b">>}

\* path.path like ?, with ? bound to "%" when like is empty and to %like%
\* otherwise: like occurs somewhere in the path
Like(like, path) ==
    LET txt == PathChars(path) IN
    \E i \in 0..(Len(txt) - Len(like)) : SubSeq(txt, i + 1, i + Len(like)) = like

\* ORDER BY path.path, node.backup_set_id ASC
RECURSIVE OrderByPathAndSet(_, _)
OrderByPathAndSet(nodes, rows) ==
    IF rows = {} THEN <<>>
    ELSE LET before(x, y) ==
                 \/ PathOrder(nodes[x].path) < PathOrder(nodes[y].path)
                 \/ /\ nodes[x].path = nodes[y].path
                    /\ \/ nodes[x].backup_set < nodes[y].backup_set
                       \/ nodes[x].backup_set = nodes[y].backup_set /\ x <= y
             i == CHOOSE x \in rows : \A y \in rows : before(x, y)
         IN <<nodes[i]>> \o OrderByPathAndSet(nodes, rows \ {i})

\* SqlLightIndex::visit_all_hashable(like, f): the rows f is called with,
\* GET_ALL_HASHABLE_QUERY_SQL
VisitAllHashable(nodes, like) ==
    OrderByPathAndSet(nodes, {i \in DOMAIN nodes :
                                 nodes[i].hash # NoHash /\ Like(like, nodes[i].path)})

\* verify that only looks whether the blob is there
VerifyExistsOnly(impl, st, node) == node.hash \notin DOMAIN st

\* Storage::verify(node) returns Some(node), the node failed. LocalStorage:
\* the hash file is missing, or the sha256 of its bytes is not node.hash.
\* S3Storage: key_exists is false.
Verify(impl, st, node) ==
    IF impl = "s3" THEN node.hash \notin DOMAIN st
    ELSE \/ node.hash \notin DOMAIN st
         \/ Sha256(st[node.hash]) # node.hash

\* the closure of verify_store over the visited rows: failed.push(node)
RECURSIVE FailedOf(_, _, _)
FailedOf(impl, st, visited) ==
    IF visited = <<>> THEN <<>>
    ELSE (IF Verify(impl, st, Head(visited)) THEN <<Head(visited)>> ELSE <<>>)
            \o FailedOf(impl, st, Tail(visited))

\* Engine::verify_store: the nodes logged as "Verification failed for", and
\* whether "Verification OK" is logged
VerifyStore(impl, nodes, st, like) ==
    LET failed == FailedOf(impl, st, VisitAllHashable(nodes, like))
    IN [res |-> "ok", failed |-> failed, summary |-> (failed = <<>>)]

\* Engine::verify_store with either Storage
ApiVerify(impl, like) ==
    /\ eng.pc = "idle"
    /\ out' = [op |-> "verify", impl |-> impl, like |-> like,
               visited |-> VisitAllHashable(db_nodes, like),
               r |-> VerifyStore(impl, db_nodes, store, like)]
    /\ UNCHANGED <<fs, fsChanges, clock, queues, pre, snd, snt, store, db_sets, db_nodes,
                   controller, eng, changes, watching, fails, hist>>

\* what two closed passes leave in the index for a key whose file the
\* second pass may have found changed: a history as above, or a revision of
\* each pass with different bodies
Rewrites(k) ==
    LET rev(d, s) == with_backup_set(set_hash(new_file(k, s, SizeOf(d), FileMode), Sha256(d)), s)
    IN {h \in Histories(k) : \A i \in DOMAIN h : h[i].kind = "File" => h[i].size > 0}
         \cup {<<rev(d[1], 1), rev(d[2], 2)>> :
                  d \in {c \in Contents \X Contents : c[1] # c[2]}}

\* two closed backup sets over any such history of the keys, and any store
\* the blobs of these revisions can be found in
InitVerify ==
    /\ fs = [k \in Keys |-> Absent]
    /\ fsChanges = 0
    /\ clock = 3
    /\ queues = [n \in QueueNames |-> EmptyQueue]
    /\ pre = [w \in PreIds |-> IdlePre]
    /\ snd = [w \in SendIds |-> IdleWorker]
    /\ snt = IdleWorker
    /\ store \in DamagedStores(Contents)
    /\ db_sets = <<1, 2>>
    /\ \E h \in {g \in [Keys -> UNION {Rewrites(k) : k \in Keys}] :
                    \A k \in Keys : g[k] \in Rewrites(k)} :
          /\ db_nodes = RowsOfPass(h, 1, 1) \o RowsOfPass(h, 2, 1)
          /\ hist = [NoHist EXCEPT !.buffers = <<RowsOfPass(h, 1, 1), RowsOfPass(h, 2, 1)>>]
    /\ controller = NoController
    /\ eng = IdleEngine
    /\ changes = {}
    /\ watching = FALSE
    /\ fails = MaxFail
    /\ out = NoOut

\* Verifications of a backup whose store may be damaged.
NextVerify == \E impl \in StorageImpls : \E like \in Filters : ApiVerify(impl, like)

SpecVerify == InitVerify /\ [][NextVerify]_vars

\* -------------------------------------------------------------- split_key
\* no engine is running: every variable but out is as constructed
Parked ==
    /\ fs = [k \in Keys |-> Absent]
    /\ fsChanges = 0
    /\ clock = 0
    /\ queues = [n \in QueueNames |-> EmptyQueue]
    /\ pre = [w \in PreIds |-> IdlePre]
    /\ snd = [w \in SendIds |-> IdleWorker]
    /\ snt = IdleWorker
    /\ store = EmptyStore
    /\ db_sets = <<>>
    /\ db_nodes = <<>>
    /\ controller = NoController
    /\ eng = IdleEngine
    /\ changes = {}
    /\ watching = FALSE
    /\ fails = MaxFail
    /\ hist = NoHist

ParkedStill ==
    UNCHANGED <<fs, fsChanges, clock, queues, pre, snd, snt, store, db_sets, db_nodes,
                controller, eng, changes, watching, fails, hist>>

\* the characters of the keys given on the command line
KeyChars == {"a", "@", "1", "2", "\n"}
Digits == {"1", "2"}
DigitOf(c) == IF c = "1" THEN 1 ELSE 2

\* the keys of at most n characters
RECURSIVE KeyTexts(_)
KeyTexts(n) ==
    IF n = 0 THEN {<<>>}
    ELSE KeyTexts(n - 1) \cup {Append(t, c) : t \in {x \in KeyTexts(n - 1) : Len(x) = n - 1},
                                              c \in KeyChars}

\* str::parse::<i64> of a text: an optional sign is not drawn, the text has
\* to be one digit or more; None otherwise
RECURSIVE ParseI64(_)
ParseI64(t) ==
    IF t = <<>> THEN [some |-> FALSE, v |-> 0]
    ELSE IF \E i \in DOMAIN t : t[i] \notin Digits THEN [some |-> FALSE, v |-> 0]
    ELSE IF Len(t) = 1 THEN [some |-> TRUE, v |-> DigitOf(t[1])]
    ELSE [some |-> TRUE,
          v |-> 10 * ParseI64(SubSeq(t, 1, Len(t) - 1)).v + DigitOf(t[Len(t)])]

\* Regex::new(r"^(.*)@(.*)$").captures(key): ^ and $ are the ends of the
\* text, . is any character but the line feed and the first .* is greedy, so
\* group 1 ends before the last @ and there is no match when a line feed is
\* in the key
Captures(key) ==
    LET ats == {i \in DOMAIN key : key[i] = "@"} IN
    IF ats = {} \/ \E i \in DOMAIN key : key[i] = "\n"
    THEN [some |-> FALSE, g1 |-> <<>>, g2 |-> <<>>]
    ELSE LET i == CHOOSE x \in ats : \A y \in ats : y <= x
         IN [some |-> TRUE, g1 |-> SubSeq(key, 1, i - 1), g2 |-> SubSeq(key, i + 1, Len(key))]

SplitResult(res, path, from) == [res |-> res, path |-> path, from |-> from]
NoFrom == [some |-> FALSE, sec |-> 0, nsec |-> 0]
Timespec(sec, nsec) == [some |-> TRUE, sec |-> sec, nsec |-> nsec]

\* split_key(key): "panic" is the unwrap of captures or the expect of parse
split_key(key) ==
    IF ~ \E i \in DOMAIN key : key[i] = "@" THEN SplitResult("ok", key, NoFrom)
    ELSE LET cap == Captures(key) IN
         IF ~cap.some THEN SplitResult("panic", <<>>, NoFrom)
         ELSE LET unix_ts == ParseI64(cap.g2) IN
              IF ~unix_ts.some THEN SplitResult("panic", <<>>, NoFrom)
              ELSE SplitResult("ok", cap.g1, Timespec(unix_ts.v, 0))

\* a key is given on the command line
InitSplit ==
    /\ Parked
    /\ \E key \in KeyTexts(MaxKeyLen) : out = [op |-> "key", key |-> key]

\* restore and list call split_key on the key they are given
SplitKey ==
    /\ out.op = "key"
    /\ out' = [op |-> "split_key", key |-> out.key, r |-> split_key(out.key)]
    /\ ParkedStill

NextSplit == SplitKey

SpecSplit == InitSplit /\ [][NextSplit]_vars

\* ------------------------------------------- LocalStorage::send step by step
\* the name of the temporary file <store>/_ among the names of the store
TempName == 0
\* a file that was unlinked while a thread had it open
Unlinked == -1
\* bytes that are the body of no request
OtherBytes == -1

\* a send thread inside LocalStorage::send: fd is the name under which the
\* file it has open is found
InSend(pc, data, fd) == [pc |-> pc, item |-> NoItem, res |-> "none", data |-> data, fd |-> fd]

\* what a file holds after data was written at its offset 0: the bytes
\* written, followed by what the file held beyond them
Overlay(cur, data) ==
    IF cur = OtherBytes THEN {data, OtherBytes}
    ELSE IF SizeOf(data) >= SizeOf(cur) THEN {data} ELSE {OtherBytes}

\* every send thread has read and hashed a body and is about to store it
InitLocalSend ==
    /\ fs = [k \in Keys |-> Absent]
    /\ fsChanges = 0
    /\ clock = 0
    /\ queues = [n \in QueueNames |-> EmptyQueue]
    /\ pre = [w \in PreIds |-> IdlePre]
    /\ snd \in [QueueWorkerIds -> {InSend("exists", d, Unlinked) : d \in Bodies}]
    /\ snt = IdleWorker
    /\ store = EmptyStore
    /\ db_sets = <<>>
    /\ db_nodes = <<>>
    /\ controller = NoController
    /\ eng = IdleEngine
    /\ changes = {}
    /\ watching = FALSE
    /\ fails = MaxFail
    /\ hist = NoHist
    /\ out = NoOut

LocalSendRest ==
    UNCHANGED <<fs, fsChanges, clock, queues, pre, snt, db_sets, db_nodes,
                controller, eng, changes, watching, fails, hist, out>>

\* if hash_filename.exists(): "Already have", Ok
LocalExists(w) ==
    /\ snd[w].pc = "exists"
    /\ snd' = [snd EXCEPT ![w].pc = IF Sha256(snd[w].data) \in DOMAIN store
                                    THEN "done" ELSE "create"]
    /\ store' = store
    /\ LocalSendRest

\* File::create(&dst_path): the file named _ is made, or is emptied when it
\* is there, and stays open
LocalCreate(w) ==
    /\ snd[w].pc = "create"
    /\ store' = [h \in DOMAIN store \cup {TempName} |->
                    IF h = TempName THEN EmptyBody ELSE store[h]]
    /\ snd' = [snd EXCEPT ![w].pc = "copy", ![w].fd = TempName]
    /\ LocalSendRest

\* copy(&mut cursor, &mut dst_file): the body is written to the open file,
\* wherever that file is found by now
LocalCopy(w) ==
    /\ snd[w].pc = "copy"
    /\ IF snd[w].fd = Unlinked THEN store' = store
       ELSE \E bytes \in Overlay(store[snd[w].fd], snd[w].data) :
               store' = [store EXCEPT ![snd[w].fd] = bytes]
    /\ snd' = [snd EXCEPT ![w].pc = "rename"]
    /\ LocalSendRest

\* rename(dst_path, &hash_filename): Err when no file is named _; else the
\* file is found under the hash from now on, also by the threads that have
\* it open, and a file that had this name is unlinked
LocalRename(w) ==
    /\ snd[w].pc = "rename"
    /\ LET hash == Sha256(snd[w].data) IN
       IF TempName \notin DOMAIN store
       THEN /\ store' = store
            /\ snd' = [snd EXCEPT ![w].pc = "err", ![w].res = "err"]
       ELSE /\ store' = [h \in (DOMAIN store \ {TempName}) \cup {hash} |->
                            IF h = hash THEN store[TempName] ELSE store[h]]
            /\ snd' = [v \in DOMAIN snd |->
                         [snd[v] EXCEPT
                            !.fd = IF @ = TempName THEN hash
                                   ELSE IF @ = hash THEN Unlinked ELSE @,
                            !.pc = IF v = w THEN "done" ELSE @,
                            !.res = IF v = w THEN "ok" ELSE @]]
    /\ LocalSendRest

\* The send threads store their bodies in a local store side by side.
NextLocalSend ==
    \E w \in QueueWorkerIds : LocalExists(w) \/ LocalCreate(w) \/ LocalCopy(w) \/ LocalRename(w)

SpecLocalSend == InitLocalSend /\ [][NextLocalSend]_vars

\* ------------------------------------------------- the pipeline, scheduled fairly
\* scan has a backup set open, every key is a one-byte file, no read, upload
\* or insert fails
InitLive ==
    /\ fs = [k \in Keys |-> FsFile(0, 1)]
    /\ fsChanges = 0
    /\ clock = 1
    /\ queues = [n \in QueueNames |-> EmptyQueue]
    /\ pre = [w \in PreIds |-> IdlePre]
    /\ snd = [w \in SendIds |-> IdleWorker]
    /\ snt = IdleWorker
    /\ store = EmptyStore
    /\ db_sets = <<1>>
    /\ db_nodes = <<>>
    /\ controller = [open |-> TRUE, index |-> 1, in_memory |-> <<>>]
    /\ eng = [IdleEngine EXCEPT !.pc = "process", !.mode = "scan", !.bs = 1, !.passes = 1]
    /\ changes = {}
    /\ watching = FALSE
    /\ fails = MaxFail
    /\ hist = [NoHist EXCEPT !.buffers = <<<<>>>>]
    /\ out = NoOut

\* process_change of one more new file: queue_for_send
QueueForSend(k) ==
    /\ eng.pc = "process"
    /\ hist.npush["pre_send"] < MaxPushes
    /\ eng' = [eng EXCEPT !.pc = "push",
                          !.pending = with_backup_set(get_file(fs, k), eng.bs)]
    /\ UNCHANGED <<fs, fsChanges, clock, queues, pre, snd, snt, store, db_sets, db_nodes,
                   controller, changes, watching, fails, hist, out>>

\* Queue::push finds q.len() >= max_len - 1: cvar.wait
EnginePushWaits ==
    /\ eng.pc = "push"
    /\ ~CanPush(queues["pre_send"])
    /\ out' = [op |-> "push_waits"]
    /\ UNCHANGED <<fs, fsChanges, clock, queues, pre, snd, snt, store, db_sets, db_nodes,
                   controller, eng, changes, watching, fails, hist>>

\* the threads of the pipeline
EngineThread == QueueForSend("a") \/ EnginePush \/ EngineWait \/ EngineLen
PreSendThread(w) == PreSendPop(w) \/ PreSendProcessOk(w) \/ PreSendPush(w) \/ PreSendDrop(w)
SendThread(w) == SendPop(w) \/ SendOk(w) \/ SendPush(w) \/ SendDrop(w)
SentThread == SentPop \/ SentInsertOk \/ SentDrop

\* A scan queues some files and then waits for the queues to drain.
NextLive ==
    \/ QueueForSend("a")
    \/ EnginePush
    \/ EnginePushWaits
    \/ EngineWait
    \/ EngineLen
    \/ \E w \in PreIds : PreSendPop(w)
    \/ \E w \in PreIds : PreSendProcessOk(w)
    \/ \E w \in PreIds : PreSendPush(w)
    \/ \E w \in PreIds : PreSendDrop(w)
    \/ \E w \in SendIds : SendPop(w)
    \/ \E w \in SendIds : SendOk(w)
    \/ \E w \in SendIds : SendPush(w)
    \/ \E w \in SendIds : SendDrop(w)
    \/ SentPop
    \/ SentInsertOk
    \/ SentDrop

\* every thread that can take a step takes one in the end
SpecLive ==
    /\ InitLive
    /\ [][NextLive]_vars
    /\ WF_vars(EngineThread)
    /\ \A w \in PreIds : WF_vars(PreSendThread(w))
    /\ \A w \in SendIds : WF_vars(SendThread(w))
    /\ WF_vars(SentThread)

\* ------------------------------------------------------------ full restore
\* Engine::restore("", None, target) with either Storage
ApiRestoreAll(impl) ==
    /\ eng.pc = "idle"
    /\ out' = [op |-> "restore_all", impl |-> impl, r |-> RestoreAll(impl, db_nodes, store)]
    /\ UNCHANGED <<fs, fsChanges, clock, queues, pre, snd, snt, store, db_sets, db_nodes,
                   controller, eng, changes, watching, fails, hist>>

\* Restores of the whole backup root.
NextRestoreAll == \E impl \in StorageImpls : ApiRestoreAll(impl)

SpecRestoreAll == InitStored /\ [][NextRestoreAll]_vars

\* ------------------------------------------------ S3Storage::send and its reader
\* SendRequest::new(md5, sha256, node, reader, size) as PreSendWorker::process
\* makes it: pos is the position of the reader, 0 after buffer.set_position(0)
SendRequestWithReader(k, d) ==
    [node |-> set_hash(with_backup_set(new_file(k, 0, SizeOf(d), FileMode), 1), Sha256(d)),
     sha256 |-> Sha256(d), data |-> d, pos |-> 0]

\* a pre-send worker pushes the request of a file with one of the bodies
PreSendPushReader(k, d) ==
    /\ hist.npush["send"] < MaxPushes
    /\ CanPush(queues["send"])
    /\ queues' = [queues EXCEPT !["send"] = QueuePush(@, SendRequestWithReader(k, d))]
    /\ hist' = [hist EXCEPT !.npush["send"] = @ + 1]
    /\ UNCHANGED <<fs, fsChanges, clock, pre, snd, snt, store, db_sets, db_nodes, controller,
                   eng, changes, watching, fails, out>>

\* S3Storage::send: key_exists returns Err, Ok(true) ("Storage already
\* contains") or Ok(false)
S3KeyExists(w) ==
    /\ snd[w].pc = "send"
    /\ \/ /\ fails < MaxFail
          /\ fails' = fails + 1
          /\ snd' = [snd EXCEPT ![w].pc = "drop", ![w].res = "err"]
       \/ /\ fails' = fails
          /\ snd' = [snd EXCEPT ![w].pc = IF snd[w].item.t.sha256 \in DOMAIN store
                                          THEN "push" ELSE "put",
                                ![w].res = IF snd[w].item.t.sha256 \in DOMAIN store
                                           THEN "ok" ELSE "none"]
    /\ UNCHANGED <<fs, fsChanges, clock, queues, pre, snt, store, db_sets, db_nodes,
                   controller, eng, changes, watching, hist, out>>

\* S3Storage::send: the PUT with Body::SizedBody(reader, size). The body is
\* what the reader yields from its position on, and the reader is left where
\* the request stopped reading it. The server stores a body that matches
\* Content-MD5 and answers any other with an error; a request can fail
\* before or after the body was read.
S3Put(w) ==
    /\ snd[w].pc = "put"
    /\ LET req == snd[w].item.t IN
       /\ out' = [op |-> "put", sha256 |-> req.sha256, size |-> req.node.size,
                  data |-> req.data, from |-> req.pos]
       /\ \/ /\ req.pos = 0
             /\ store' = StorageSend(store, req)
             /\ fails' = fails
             /\ snd' = [snd EXCEPT ![w].pc = "push", ![w].res = "ok",
                                   ![w].item.t.pos = SizeOf(req.data)]
          \/ /\ req.pos # 0
             /\ hist.requeued[req.node.path] < MaxRetries
             /\ store' = store
             /\ fails' = fails
             /\ snd' = [snd EXCEPT ![w].pc = "drop", ![w].res = "err",
                                   ![w].item.t.pos = SizeOf(req.data)]
          \/ /\ fails < MaxFail
             /\ fails' = fails + 1
             /\ store' = store
             /\ \E pos \in {req.pos, SizeOf(req.data)} :
                   snd' = [snd EXCEPT ![w].pc = "drop", ![w].res = "err",
                                      ![w].item.t.pos = pos]
    /\ UNCHANGED <<fs, fsChanges, clock, queues, pre, snt, db_sets, db_nodes,
                   controller, eng, changes, watching, hist>>

\* The send threads upload to S3, with probes and uploads that may fail, and
\* the insert thread stages what was sent.
NextS3Send ==
    \/ \E d \in Contents : PreSendPushReader("a", d)
    \/ \E w \in SendIds : SendPop(w)
    \/ \E w \in SendIds : S3KeyExists(w)
    \/ \E w \in SendIds : S3Put(w)
    \/ \E w \in SendIds : SendPush(w)
    \/ \E w \in SendIds : SendDrop(w)
    \/ SentPop
    \/ SentInsertOk
    \/ SentDrop

InitS3Send ==
    /\ fs = [k \in Keys |-> FsFile(0, 1)]
    /\ fsChanges = 0
    /\ clock = 1
    /\ queues = [n \in QueueNames |-> EmptyQueue]
    /\ pre = [w \in PreIds |-> IdlePre]
    /\ snd = [w \in SendIds |-> IdleWorker]
    /\ snt = IdleWorker
    /\ store = EmptyStore
    /\ db_sets = <<1>>
    /\ db_nodes = <<>>
    /\ controller = [open |-> TRUE, index |-> 1, in_memory |-> <<>>]
    /\ eng = IdleEngine
    /\ changes = {}
    /\ watching = FALSE
    /\ fails = 0
    /\ hist = [NoHist EXCEPT !.buffers = <<<<>>>>]
    /\ out = NoOut

SpecS3Send == InitS3Send /\ [][NextS3Send]_vars

\* --------------------------------------------- Queue::push for every max_len
\* Queue::push, the condition of its wait loop: q.len() as u64 >= *max_len - 1.
\* The queues made here have max_len >= 1, where the u64 subtraction is exact.
PushWaits(max_len, len) == len >= max_len - 1

\* Queue::new(name).with_max_len(max_len) with the values the claim is about,
\* its consumers idle
InitPush ==
    /\ fs = [k \in Keys |-> FsFile(0, 1)]
    /\ fsChanges = 0
    /\ clock = 1
    /\ queues = [n \in QueueNames |-> EmptyQueue]
    /\ pre = [w \in PreIds |-> IdlePre]
    /\ snd = [w \in QueueWorkerIds |-> IdleWorker]
    /\ snt = IdleWorker
    /\ store = EmptyStore
    /\ db_sets = <<1>>
    /\ db_nodes = <<>>
    /\ controller = [open |-> TRUE, index |-> 1, in_memory |-> <<>>]
    /\ eng = IdleEngine
    /\ changes = {}
    /\ watching = FALSE
    /\ fails = 0
    /\ hist = [NoHist EXCEPT !.buffers = <<<<>>>>]
    /\ \E max_len \in 1..MaxLen : out = [op |-> "with_max_len", max_len |-> max_len, len |-> 0]

\* Queue::push on the queue made with out.max_len: one evaluation of the wait
\* condition under the lock, and the push_back when it is false. len is the
\* q.len() the condition saw.
PushWithMaxLen(k) ==
    /\ hist.npush["send"] < MaxPushes
    /\ IF PushWaits(out.max_len, Len(queues["send"].q))
       THEN /\ out' = [out EXCEPT !.op = "push_waits", !.len = Len(queues["send"].q)]
            /\ UNCHANGED <<queues, hist>>
       ELSE /\ out' = [out EXCEPT !.op = "pushed", !.len = Len(queues["send"].q)]
            /\ queues' = [queues EXCEPT !["send"] = QueuePush(@, RequestOf(k))]
            /\ hist' = [hist EXCEPT !.npush["send"] = @ + 1]
    /\ UNCHANGED <<fs, fsChanges, clock, pre, snd, snt, store, db_sets, db_nodes, controller,
                   eng, changes, watching, fails>>

NextPush ==
    \/ PushWithMaxLen("a")
    \/ \E w \in QueueWorkerIds : SendPop(w)
    \/ \E w \in QueueWorkerIds : SendOk(w)
    \/ \E w \in QueueWorkerIds : SendErr(w)
    \/ \E w \in QueueWorkerIds : SendPush(w)
    \/ \E w \in QueueWorkerIds : SendDrop(w)
    \/ SentPop
    \/ SentInsertOk
    \/ SentDrop

SpecPush == InitPush /\ [][NextPush]_vars

\* ------------------------------------------------- Engine::run, the next period
Periods == 1..MaxPeriod

\* i64 division of a non-negative by a positive number
DivI64(a, b) == a \div b

\* Engine::run: seconds_div = now.sec / period; seconds = (seconds_div + 1) *
\* period; next_time = Timespec::new(seconds, 0)
NextTime(now, period) == Timespec((DivI64(now, period) + 1) * period, 0)

InitPeriod ==
    /\ Parked
    /\ \E period \in Periods : out = [op |-> "period", period |-> period, now |-> 0,
                                      next_time |-> NoFrom, slept |-> 0]

\* Engine::run: read the clock and compute the time to sleep until
RunNextTime ==
    /\ out.op \in {"period", "run"}
    /\ \E now \in 0..MaxNow :
          out' = [out EXCEPT !.op = "next_time", !.now = now,
                             !.next_time = NextTime(now, out.period), !.slept = 0]
    /\ ParkedStill

\* Engine::run, the inner loop: sleep a second while the clock is before
\* next_time
RunSleep ==
    /\ out.op = "next_time"
    /\ out.now + out.slept < out.next_time.sec
    /\ out' = [out EXCEPT !.slept = @ + 1]
    /\ ParkedStill

\* Engine::run, the inner loop: break when now >= next_time, and the run begins
RunBegin ==
    /\ out.op = "next_time"
    /\ out.now + out.slept >= out.next_time.sec
    /\ out' = [out EXCEPT !.op = "run"]
    /\ ParkedStill

NextPeriod == RunNextTime \/ RunSleep \/ RunBegin

SpecPeriod == InitPeriod /\ [][NextPeriod]_vars

\* ------------------------------------------------------ S3Storage::key_exists
\* the bucket's host, 0, and the hosts a Location header can name
Hosts == 0..NumHosts
KeyCounts == 0..2

\* what a Location header of a redirect can hold
Location(kind, host) == [kind |-> kind, host |-> host]
Locations == {Location(kind, 0) : kind \in {"none", "unparsable", "no_host"}}
                \cup {Location("host", host) : host \in Hosts}

\* the list request is built for host = <bucket>.s3.amazonaws.com
InitKeyExists ==
    /\ Parked
    /\ out = [op |-> "loop", host |-> 0, requests |-> 0, res |-> "none"]

KeyExistsErr(res) == [out EXCEPT !.op = "return", !.requests = @ + 1, !.res = res]

\* key_exists, one turn of its loop: sign and send the GET to host, then
\* break on 200, follow a 307 to the host of its Location, and return Err on a
\* failed request, a redirect without a usable Location or any other status
KeyExistsRequest ==
    /\ out.op = "loop"
    /\ out.requests < MaxRequests
    /\ \/ out' = KeyExistsErr("Checking S3 key failed")
       \/ \E n \in KeyCounts :
             out' = [out EXCEPT !.op = "return", !.requests = @ + 1,
                                !.res = IF n = 1 THEN "true" ELSE "false"]
       \/ \E loc \in Locations :
             out' = CASE loc.kind = "none" -> KeyExistsErr("No Location header on redirect")
                      [] loc.kind = "unparsable" -> KeyExistsErr("Failed to parse URL")
                      [] loc.kind = "no_host" -> KeyExistsErr("No host part on redirect")
                      [] OTHER -> [out EXCEPT !.requests = @ + 1, !.host = loc.host]
       \/ out' = KeyExistsErr("Failed to check key exists")
    /\ ParkedStill

\* S3Storage::send and verify call key_exists again for the next key
KeyExistsAgain ==
    /\ out.op = "return"
    /\ out' = [op |-> "loop", host |-> 0, requests |-> 0, res |-> out.res]
    /\ ParkedStill

NextKeyExists == KeyExistsRequest \/ KeyExistsAgain

SpecKeyExists == InitKeyExists /\ [][NextKeyExists]_vars

TypeOK ==
    /\ eng.pc \in {"idle", "scan_dir", "process", "push", "wait_send", "wait_sent",
                   "len_pre", "len_send", "len_sent", "close", "persist", "sleep",
                   "panicked"}
    /\ \A n \in QueueNames : queues[n].in_progress >= 0


\* ------------------------------------------------------------------ claims
\* node rows of a backup set that get and list can return
VisibleOf(s) == {i \in DOMAIN db_nodes : db_nodes[i].backup_set = s}

\* values staged in the open set's buffer
Staged == {controller.in_memory[i] : i \in DOMAIN controller.in_memory}

Drained == \A n \in QueueNames : Len(queues[n].q) = 0 /\ queues[n].in_progress = 0

\* C1: close_backup_set of a pass run as a backup set is invoked only when the
\* three queues hold no waiting item and no item in progress, and every file
\* node pushed to pre_send during the pass is staged (with its hash) in the
\* buffer of the open set.
C1_DrainedBeforeClose ==
    eng.pc = "close" =>
        /\ Drained
        /\ controller.open
        /\ \A n \in hist.pushed : \E m \in Staged : [m EXCEPT !.hash = NoHash] = n

C1_Witness ==
    /\ eng.pc = "close"
    /\ Cardinality(hist.pushed) = 2
    /\ fails > 0


Range(f) == {f[i] : i \in DOMAIN f}

\* C2: a staged node is not visible to get or list before close_backup_set of
\* its set, and while close_backup_set runs a concurrent get or list sees
\* either none or all of the nodes of the set.
C2_AtomicVisibility ==
    /\ controller.open => VisibleOf(controller.index) = {}
    /\ eng.pc = "persist" =>
          \/ VisibleOf(eng.bs) = {}
          \/ Cardinality(VisibleOf(eng.bs)) = Len(hist.buffers[eng.bs])

\* C3: after close_backup_set has failed on a persist, either all nodes of
\* the set are visible or none is.
C3_FailedCloseAllOrNothing ==
    eng.result = "err" =>
        \/ VisibleOf(eng.bs) = {}
        \/ Cardinality(VisibleOf(eng.bs)) = Len(hist.buffers[eng.bs])

\* C4: create_backup_set while a set is open is detected, it panics with
\* "backup set already open", and leaves the open set and its buffer as they
\* were.
C4_OpenTwiceDetected ==
    [][(controller.open /\ Len(db_sets') > Len(db_sets)) =>
          /\ controller' = controller
          /\ hist'.panic = "backup set already open"
          /\ eng'.pc = "panicked"]_vars

C4_Witness ==
    /\ hist.panic = "backup set already open"
    /\ controller.open
    /\ controller.in_memory # <<>>

\* C5: in Engine::run every backup set that was opened is closed once its
\* work has drained: when the engine sleeps until the next period no set is
\* open and the nodes of the pass are visible.
C5_RunClosesEachSet ==
    (eng.mode = "run" /\ eng.pc = "sleep") => ~controller.open

\* number of QueueItems of a queue that are alive
Held(n) ==
    CASE n = "pre_send" -> Cardinality({w \in PreIds : pre[w].item.has})
      [] n = "send" -> Cardinality({w \in SendIds : snd[w].item.has})
      [] OTHER -> IF snt.item.has THEN 1 ELSE 0

C6_Conservation ==
    \A n \in QueueNames :
        /\ queues[n].in_progress = Held(n)
        /\ hist.npush[n] = Len(queues[n].q) + Held(n) + hist.nsucc[n]

Requeued(n, item) ==
    queues'[n] = [q |-> Append(queues[n].q, item.t),
                  in_progress |-> queues[n].in_progress - 1]

C6_DropRequeues ==
    /\ \A w \in PreIds :
          (pre[w].item.has /\ ~pre[w].item.success /\ ~pre'[w].item.has)
              => Requeued("pre_send", pre[w].item)
    /\ \A w \in SendIds :
          (snd[w].item.has /\ ~snd[w].item.success /\ ~snd'[w].item.has)
              => Requeued("send", snd[w].item)
    /\ (snt.item.has /\ ~snt.item.success /\ ~snt'.item.has)
          => Requeued("sent", snt.item)

\* C6: a QueueItem dropped without success puts its value at the back of its
\* queue in the step that decrements in_progress, and every pushed value is
\* waiting, held by a live QueueItem or completed with success.
C6_NoValueLost == []C6_Conservation /\ [][C6_DropRequeues]_vars

C6_Witness ==
    \E k \in Keys :
        /\ hist.requeued[k] = 1
        /\ \E i \in DOMAIN queues["send"].q : queues["send"].q[i].node.path = k
        /\ \E j \in DOMAIN queues["send"].q : queues["send"].q[j].node.path # k

\* C7: the drop policy re-enqueues a failing item at most once.
C7_RequeuedAtMostOnce == \A k \in Keys : hist.requeued[k] <= 1

\* the nodes that are in the sent queue, with the insert worker, staged in the
\* open set, being persisted, or persisted
PastSend ==
    Range(queues["sent"].q) \cup (IF snt.item.has THEN {snt.item.t} ELSE {})
        \cup Staged \cup Range(eng.closing) \cup Range(db_nodes)

\* C8: every live file node that reached the sent queue or the index carries
\* a hash whose blob the object store accepted.
C8_StagedOnlyAfterSend ==
    \A n \in PastSend :
        (n.kind = "File" /\ ~n.deleted) => (n.hash # NoHash /\ n.hash \in DOMAIN store)

C8_Witness ==
    \E i \in DOMAIN db_nodes :
        /\ db_nodes[i].kind = "File"
        /\ ~db_nodes[i].deleted
        /\ hist.requeued[db_nodes[i].path] > 0

C10_InsertFailureNotRequeued ==
    [][(snt.pc \in {"drop", "unwind"} /\ snt.res = "err" /\ snt'.pc \in {"pop", "dead"}) =>
          queues'["sent"].q = queues["sent"].q]_vars

\* C11: every node row visible in the index has a hash iff it is a live
\* file, size 0 when it is a directory, and mode 0 and no hash when deleted.
C11_RowInvariants ==
    \A i \in DOMAIN db_nodes :
        LET n == db_nodes[i]
        IN /\ (n.hash # NoHash) <=> (n.kind = "File" /\ ~n.deleted)
           /\ n.kind = "Dir" => n.size = 0
           /\ n.deleted => (n.mode = 0 /\ n.hash = NoHash)

\* C12: every persisted node row carries the id of an existing backup_set
\* row, the set that was open when the node was inserted.
C12_RowsReferenceOpenSet ==
    \A i \in DOMAIN db_nodes :
        /\ db_nodes[i].backup_set \in 1..Len(db_sets)
        /\ db_nodes[i] \in Range(hist.buffers[db_nodes[i].backup_set])

\* C13: insert rejects a node that violates the node invariants, so no such
\* node is in the staging buffer of the open set.
C13_InsertValidates == \A n \in Staged : validate(n)

\* the node rows of a path whose backup set exists and has at <= t
RevisionsUpTo(p, t) ==
    {i \in DOMAIN db_nodes :
        /\ db_nodes[i].path = p
        /\ \E b \in DOMAIN db_sets : db_nodes[i].backup_set = b /\ db_sets[b] <= t}

\* r is the member of rows with the largest id, NoNode when rows is empty
IsLargestOf(r, rows) ==
    IF rows = {} THEN r = NoNode
    ELSE \E i \in rows : r = db_nodes[i] /\ \A j \in rows : j <= i

\* C14: get(p, None) returns the revision of p with the largest node id,
\* get(p, t) the one with the largest id among the revisions whose backup set
\* has at <= t, and each returns None when there is no such revision.
C14_GetSemantics ==
    \A p \in Paths :
        /\ IsLargestOf(IndexGet(db_nodes, p), {i \in DOMAIN db_nodes : db_nodes[i].path = p})
        /\ \A t \in 0..MaxSets :
              IsLargestOf(IndexGetFrom(db_sets, db_nodes, p, t), RevisionsUpTo(p, t))

C14_Witness ==
    /\ eng.pc = "idle"
    /\ ~controller.open
    /\ \E p \in Paths : \E t \in 0..MaxSets :
          /\ IndexGetFrom(db_sets, db_nodes, p, t) # NoNode
          /\ IndexGetFrom(db_sets, db_nodes, p, t) # IndexGet(db_nodes, p)
          /\ IndexGetFrom(db_sets, db_nodes, p, 0) = NoNode

\* C15: list(parent, t) returns one row for each direct child of parent that
\* has a revision in a set with at <= t, that row being the child's
\* largest-id revision among those sets, in ascending path order.
C15_ListSemantics ==
    \A parent \in Paths \cup {""} : \A t \in 0..MaxSets :
        LET r == IndexListFrom(db_sets, db_nodes, parent, t)
            children == {p \in Paths : ParentOf(p) = parent /\ RevisionsUpTo(p, t) # {}}
        IN /\ {r[i].path : i \in DOMAIN r} = children
           /\ Len(r) = Cardinality(children)
           /\ \A i \in DOMAIN r : IsLargestOf(r[i], RevisionsUpTo(r[i].path, t))
           /\ \A i, j \in DOMAIN r : i < j => PathOrder(r[i].path) < PathOrder(r[j].path)

\* a step of process_change for key k, and what it did with the change
Processed(k) ==
    /\ eng.pc = "process"
    /\ eng'.pc \in {"process", "push", "panicked"}
    /\ \/ k \in eng.todo1 /\ eng'.todo1 = eng.todo1 \ {k} /\ eng'.todo2 = eng.todo2
       \/ /\ eng.todo1 = {} /\ eng.todo2 # <<>> /\ k = Head(eng.todo2)
          /\ eng'.todo2 = Tail(eng.todo2)
Skipped == controller' = controller /\ eng'.pc = "process"
QueuedLive(k) ==
    /\ eng'.pc = "push" /\ controller' = controller
    /\ eng'.pending.path = k /\ eng'.pending.kind = "File" /\ ~eng'.pending.deleted
    /\ eng'.pending.size = SizeOf(fs[k].data) /\ eng'.pending.mtime = fs[k].mtime
    /\ eng'.pending.backup_set = eng.bs
StagedNow(k) ==
    IF eng'.pc = "process" /\ Len(controller'.in_memory) = Len(controller.in_memory) + 1
          /\ SubSeq(controller'.in_memory, 1, Len(controller.in_memory)) = controller.in_memory
    THEN {controller'.in_memory[Len(controller'.in_memory)]}
    ELSE {}
StagedLiveDir(k) ==
    \E n \in StagedNow(k) :
        /\ n.path = k /\ n.kind = "Dir" /\ ~n.deleted /\ n.size = 0
        /\ n.mtime = fs[k].mtime /\ n.backup_set = eng.bs
StagedTombstone(k, kind) ==
    \E n \in StagedNow(k) :
        /\ n.path = k /\ n.kind = kind /\ n.deleted /\ n.size = 0 /\ n.mode = 0
        /\ n.hash = NoHash /\ n.backup_set = eng.bs
NewRevision(k) ==
    IF fs[k].kind = "File" THEN QueuedLive(k) ELSE StagedLiveDir(k)

\* C16: process_change, given the latest indexed node (none or live) and the
\* on-disk entry of a key: none and absent is a no-op; none and a File queues a
\* send; none and a Dir stages a Dir node; a live node and absent stages a
\* tombstone of the same kind; File and File with equal size and mtime is a
\* no-op, otherwise a send; Dir and Dir is a no-op; a kind change always
\* yields a new revision of the new kind.
C16_DecisionMatrix ==
    [][\A k \in Keys :
          LET latest == IndexGet(db_nodes, k) IN
          (Processed(k) /\ ~latest.deleted) =>
             CASE latest.kind = "None" /\ fs[k].kind = "Absent" -> Skipped
               [] latest.kind = "None" -> NewRevision(k)
               [] fs[k].kind = "Absent" -> StagedTombstone(k, latest.kind)
               [] latest.kind = "File" /\ fs[k].kind = "File" ->
                     IF latest.size = SizeOf(fs[k].data) /\ latest.mtime = fs[k].mtime
                     THEN Skipped ELSE QueuedLive(k)
               [] latest.kind = "Dir" /\ fs[k].kind = "Dir" -> Skipped
               [] OTHER -> NewRevision(k)]_vars

\* C17: Deleted is terminal. When the latest indexed node of a key is a
\* tombstone and the key is observed absent again, by process_change or by a
\* later scan, no new revision is produced, so a scan of an unchanged tree
\* adds no rows.
C17_DeletedIsTerminal ==
    [][\A k \in Keys :
          (Processed(k) /\ IndexGet(db_nodes, k).deleted /\ fs[k].kind = "Absent")
             => Skipped]_vars

\* C18: when the latest indexed node of a key is a tombstone, of a File or of
\* a Dir, and the key is observed present as a File or a Dir, a new live
\* revision of the observed kind is recorded.
C18_TombstoneThenPresent ==
    [][\A k \in Keys :
          (Processed(k) /\ IndexGet(db_nodes, k).deleted /\ fs[k].kind # "Absent")
             => NewRevision(k)]_vars

\* the scan of a directory has handled every entry and every known node
ScanLoopsDone == eng.pc = "process" /\ eng.todo1 = {} /\ eng.todo2 = <<>>
\* the tombstones staged for key k in the open backup set
TombstonesOf(k) ==
    {i \in DOMAIN controller.in_memory :
        controller.in_memory[i].path = k /\ controller.in_memory[i].deleted}

\* C19: during a scan, for the visited directory, every child known to the
\* index that has no on-disk entry gets exactly one Change processed, which
\* yields a tombstone of the same kind with size 0 and mode 0; known children
\* that are present on disk get no tombstone.
C19_ScanTombstonesMissing ==
    ScanLoopsDone =>
        \A k \in Keys :
            LET known == IndexGet(db_nodes, k) IN
            known # NoNode =>
                IF fs[k].kind = "Absent"
                THEN /\ Cardinality(TombstonesOf(k)) = 1
                     /\ \A i \in TombstonesOf(k) :
                           /\ controller.in_memory[i].kind = known.kind
                           /\ controller.in_memory[i].size = 0
                           /\ controller.in_memory[i].mode = 0
                           /\ controller.in_memory[i].backup_set = eng.bs
                ELSE TombstonesOf(k) = {}
C19_Witness ==
    /\ ScanLoopsDone
    /\ \E k1, k2 \in Keys :
          /\ IndexGet(db_nodes, k1) # NoNode /\ ~IndexGet(db_nodes, k1).deleted
          /\ fs[k1].kind = "Absent" /\ TombstonesOf(k1) # {}
          /\ IndexGet(db_nodes, k2) # NoNode /\ fs[k2].kind # "Absent"

\* C20: round trip. For a file under the backup root and a closed scan pass
\* that includes it, restoring at the latest time yields a file of byte-equal
\* content, with whichever Storage implementation (local or S3) is used.
C20_RoundTrip ==
    (eng.pc = "idle" /\ eng.result = "ok" /\ fsChanges = 0) =>
        \A impl \in StorageImpls : \A k \in Keys :
            (fs[k].kind = "File" /\ IndexGet(db_nodes, k).kind = "File"
               /\ ~IndexGet(db_nodes, k).deleted) =>
                Restore(impl, db_nodes, store, k) =
                    Restored("ok", "File", fs[k].data, NoNode)

\* C21: restore(key, from, target) returns NotFound when get(key, from) has no
\* revision, and GeneralWithNode carrying the offending node when the blob of
\* a file is missing from the object store; in neither case does it panic or
\* return another kind of error.
C21_RestoreErrors ==
    out.op = "restore" =>
        /\ out.node.kind = "None" => out.r.res = "NotFound"
        /\ (out.node.kind = "File" /\ out.node.hash # NoHash
              /\ out.node.hash \notin DOMAIN store) =>
                 (out.r.res = "GeneralWithNode" /\ out.r.node = out.node)

\* a send worker's storage.send returns Ok for the request it holds
SendReturnsOk(w) == snd[w].pc = "send" /\ snd'[w].pc = "push" /\ snd'[w].res = "ok"

WaitReturns(n) ==
    CASE n = "pre_send" -> eng.pc = "process" /\ eng'.pc = "wait_send"
      [] n = "send" -> eng.pc = "wait_send" /\ eng'.pc = "wait_sent"
      [] OTHER -> eng.pc = "wait_sent" /\ eng'.pc = "len_pre"

\* C23: Queue::wait returns only in a state where the queue holds no waiting
\* item and in_progress = 0, whatever producers and consumers do, consumers
\* that drop items without success included.
C23_WaitReturnsDrained ==
    [][\A n \in QueueNames :
          WaitReturns(n) => (queues[n].q = <<>> /\ queues[n].in_progress = 0)]_vars
\* wait has returned on the send queue after a send worker dropped an item
\* without success
C23_Witness ==
    /\ eng.pc = "wait_sent"
    /\ \E k \in Keys : hist.requeued[k] > 0

\* C24: a queue of max_len N with concurrent producers and one consumer that
\* signals success on every item it pops (the sent queue and the insert
\* thread): len(), waiting plus in-progress items, never exceeds N, and once
\* every push is consumed len() = in_progress() = 0.
C24_LenBounded ==
    /\ QueueLen(queues["sent"]) <= MaxLen
    /\ (hist.nsucc["sent"] = hist.npush["sent"]) =>
          (QueueLen(queues["sent"]) = 0 /\ queues["sent"].in_progress = 0)
\* the sent queue is as long as it gets: full, and the insert thread holds an item
C24_Witness ==
    /\ QueueLen(queues["sent"]) = MaxLen
    /\ queues["sent"].in_progress = 1
    /\ hist.nsucc["sent"] < hist.npush["sent"]

\* C25: each pipeline queue (max_len 4) stays bounded: in every reachable
\* state, runs with failing send workers whose items the drop policy puts
\* back included, the number of waiting items of a queue is at most 4.
C25_WaitingBounded ==
    \A n \in QueueNames : Len(queues[n].q) <= MaxLen

\* QueueItems of queue n that were popped and are not dropped yet
Undropped(n) ==
    CASE n = "pre_send" -> {w \in DOMAIN pre : pre[w].pc \in {"process", "push", "drop"}}
      [] n = "send" -> {w \in DOMAIN snd : snd[w].pc \in {"send", "push", "drop"}}
      [] OTHER -> IF snt.pc \in {"insert", "drop", "unwind"} THEN {0} ELSE {}

\* C26: after any sequence of push, pop, success and drop through the clones
\* of a queue, in_progress is the number of popped QueueItems not yet dropped
\* (one increment per pop, one decrement per drop, never below zero) and
\* len() is the number of waiting items plus in_progress.
C26_InProgressCounts ==
    \A n \in QueueNames :
        /\ queues[n].in_progress = Cardinality(Undropped(n))
        /\ queues[n].in_progress >= 0
        /\ QueueLen(queues[n]) = Len(queues[n].q) + Cardinality(Undropped(n))
\* both send threads hold an item, one of them after a failed upload, and the
\* insert thread holds one
C26_Witness ==
    /\ Cardinality(Undropped("send")) = NumQueueWorkers
    /\ Cardinality(Undropped("sent")) = 1
    /\ \E w \in DOMAIN snd : snd[w].pc = "drop" /\ ~snd[w].item.success
    /\ hist.requeued["a"] > 0

\* the nodes in the three queues and in the hands of the workers
InPipeline ==
    Range(queues["pre_send"].q) \cup {r.node : r \in Range(queues["send"].q)}
        \cup Range(queues["sent"].q)
        \cup {pre[w].item.t : w \in {v \in DOMAIN pre : pre[v].item.has}}
        \cup {snd[w].item.t.node : w \in {v \in DOMAIN snd : snd[v].item.has}}
        \cup (IF snt.item.has THEN {snt.item.t} ELSE {})
        \cup (IF eng.pc = "push" THEN {eng.pending} ELSE {})

\* C27: only live File nodes enter the pre_send, send and sent queues; Dir
\* nodes and tombstones are staged by the engine thread through index.insert,
\* so the node a pre-send worker pops is always a File.
C27_OnlyLiveFilesQueued ==
    \A n \in InPipeline : n.kind = "File" /\ ~n.deleted
\* a file node is in the sent queue after the engine staged a tombstone itself
C27_Witness ==
    /\ queues["sent"].q # <<>>
    /\ \E n \in Staged : n.deleted

\* the revisions recorded so far: persisted rows, then the open set's buffer
Revisions == db_nodes \o controller.in_memory

AsWithoutLimit(k) ==
    LET d == ProcessChangeDecision(db_nodes, fs, k, eng.bs, clock) IN
    CASE d.act = "skip" -> Skipped
      [] d.act = "queue" -> eng'.pc = "push" /\ eng'.pending = d.node /\ controller' = controller
      [] OTHER -> eng'.pc = "process" /\ controller' = BackupSetInsert(controller, d.node)

\* C29: with max_file_size configured, a change whose current file is larger
\* than max_file_size yields no revision and no upload and leaves the index
\* as it was; a file of size <= max_file_size is processed as if no limit
\* were set.
C29_MaxFileSize ==
    [][\A k \in Keys :
          Processed(k) =>
             IF fs[k].kind = "File" /\ SizeOf(fs[k].data) > MaxFileSize
             THEN Skipped /\ queues' = queues /\ db_nodes' = db_nodes /\ store' = store
             ELSE AsWithoutLimit(k)]_vars
\* the scan is through: a file above the limit, new or changed, left no trace,
\* and a file within the limit was queued for sending
C29_Witness ==
    /\ ScanLoopsDone
    /\ \E k1, k2 \in Keys :
          /\ fs[k1].kind = "File" /\ SizeOf(fs[k1].data) > MaxFileSize
          /\ \A n \in Staged \cup Range(queues["pre_send"].q) : n.path # k1
          /\ fs[k2].kind = "File" /\ SizeOf(fs[k2].data) = MaxFileSize
          /\ \E n \in Range(queues["pre_send"].q) : n.path = k2

\* the hashable revisions of the index whose path contains the filter
Matching(like) ==
    {n \in Range(db_nodes) : n.hash # NoHash /\ Like(like, n.path)}

\* the blob of a revision is not in the store, or its bytes hash to another name
Damaged(n) == \A d \in Contents : n.hash \in DOMAIN store /\ store[n.hash] = d => Sha256(d) # n.hash

RECURSIVE DecimalOf(_)
DecimalOf(t) == IF t = <<>> THEN 0 ELSE 10 * DecimalOf(SubSeq(t, 1, Len(t) - 1)) + DigitOf(t[Len(t)])

\* C31: split_key of a key without '@' is (key, None); split_key of
\* path@ts, with ts a decimal integer, is (path, Timespec{ts, 0}), split at
\* the last '@'; the path before '@' may be empty.
C31_SplitKey ==
    out.op = "split_key" =>
       /\ (\A i \in DOMAIN out.key : out.key[i] # "@") =>
             out.r = SplitResult("ok", out.key, NoFrom)
       /\ \A i \in DOMAIN out.key :
             LET path == SubSeq(out.key, 1, i - 1)
                 ts == SubSeq(out.key, i + 1, Len(out.key))
             IN (out.key[i] = "@" /\ ts # <<>> /\ \A j \in DOMAIN ts : ts[j] \in Digits) =>
                   out.r = SplitResult("ok", path, Timespec(DecimalOf(ts), 0))

\* C32: with several send threads inside LocalStorage.send at once, each
\* with its own body and all writing through the one temporary file, every
\* blob found under a hash H holds bytes whose sha256 is H.
C32_BlobMatchesName ==
    \A h \in DOMAIN store \ {TempName} : Sha256(store[h]) = h

Unhashed(n) == [n EXCEPT !.hash = NoHash]

\* the nodes len() of a queue counts: those waiting, and those held by a
\* live QueueItem, each of which is one of in_progress
CountedIn(name) ==
    CASE name = "pre_send" ->
            Range(queues[name].q)
               \cup {pre[w].item.t : w \in {v \in DOMAIN pre : pre[v].item.has}}
      [] name = "send" ->
            {Unhashed(r.node) : r \in Range(queues[name].q)}
               \cup {Unhashed(snd[w].item.t.node) : w \in {v \in DOMAIN snd : snd[v].item.has}}
      [] OTHER ->
            {Unhashed(m) : m \in Range(queues[name].q)}
               \cup (IF snt.item.has THEN {Unhashed(snt.item.t)} ELSE {})

\* the nodes that were staged in a set that close_backup_set has flushed
FlushedStaged == UNION {Range(hist.buffers[i]) : i \in DOMAIN hist.buffers}

\* C34: a file node pushed to pre_send is counted in len() of one of the
\* three queues until it is staged in the index; so the three waits of
\* wait_for_queue_drain leave every queue at len() = 0 and its panic
\* "Items still in queue" does not happen.
C34_CountedUntilStaged ==
    /\ \A n \in hist.pushed :
          \/ \E m \in Staged \cup FlushedStaged : Unhashed(m) = n
          \/ \E name \in QueueNames : n \in CountedIn(name) /\ QueueLen(queues[name]) > 0
    /\ eng.pc \in {"len_pre", "len_send", "len_sent"} =>
          \A name \in QueueNames : QueueLen(queues[name]) = 0
    /\ hist.panic # "Items still in queue"
\* a send thread has pushed its node to sent and not yet dropped its item:
\* the node is counted by send and by sent, after an upload of it had failed
C34_Witness ==
    \E w \in DOMAIN snd :
        /\ snd[w].pc = "drop" /\ snd[w].item.success
        /\ snd[w].item.t.node \in Range(queues["sent"].q)
        /\ hist.requeued[snd[w].item.t.node.path] > 0
        /\ QueueLen(queues["pre_send"]) = 0

\* C35: after a completed scan of a backup root that did not change during
\* the scan, the latest revision of every key ever indexed is live iff the
\* key exists on disk.
C35_LatestLiveIffOnDisk ==
    (ScanLoopsDone /\ Drained) =>
        \A k \in Keys :
            LET latest == IndexGet(Revisions, k) IN
            latest.kind # "None" => (~latest.deleted <=> fs[k].kind # "Absent")

\* the keys whose latest revision is live, and those whose latest is a tombstone
LiveKeys == {k \in Keys : IndexGet(db_nodes, k).kind # "None" /\ ~IndexGet(db_nodes, k).deleted}
DeletedKeys == {k \in Keys : IndexGet(db_nodes, k).kind # "None" /\ IndexGet(db_nodes, k).deleted}

\* C36: a restore of the root while the latest revision of some child is a
\* tombstone returns Ok without a panic and creates the live children only,
\* not the deleted child (the blobs of the live files being in the store).
C36_RestoreSkipsTombstones ==
    (/\ out.op = "restore_all" /\ out.impl = "local"
     /\ DeletedKeys # {}
     /\ \A k \in LiveKeys : LET n == IndexGet(db_nodes, k)
                            IN n.kind = "File" => n.hash \in DOMAIN store)
        => (out.r.res = "ok" /\ out.r.created = LiveKeys)

\* C37: every upload of a SendRequest, the retry after a failed send
\* included, transmits the complete body the request was made of: the reader
\* is at offset 0 when the body is read.
C37_RetrySendsWholeBody ==
    out.op = "put" => out.from = 0

\* C38: for every max_len >= 1 a push on a queue that holds no waiting item
\* does not wait: the wait condition is false on the empty queue.
C38_PushOnEmptyReturns ==
    out.op = "push_waits" => out.len > 0

Ceil(now, period) == IF now % period = 0 THEN now \div period ELSE (now \div period) + 1

\* C39: for every now >= 0 and period >= 1 the time the run loop sleeps
\* until is ceil(now / period) * period, which is now itself when now is a
\* multiple of period.
C39_BoundaryIsCeil ==
    out.op = "next_time" => out.next_time = Timespec(Ceil(out.now, out.period) * out.period, 0)

\* C40: the existence probe follows at most one temporary redirect: it
\* issues at most two requests before it returns a result or an error.
C40_AtMostTwoRequests ==
    out.requests <= 2
====
